---- MODULE Spec2Model ----
(***************************************************************************)
(* Model of rss_email/article_processor.py: the Claude rate limiter, the   *)
(* batch splitter, the per-batch client call, the result assembler and the *)
(* batch orchestrator of process_articles_with_claude.                     *)
(*                                                                         *)
(* Spec is the run of process_articles_with_claude next to direct calls of *)
(* the rate limiter.  The functions that are pure are also studied on      *)
(* their own, each under a specification that draws the arguments in its   *)
(* initial state and applies the function in one step.                     *)
(*                                                                         *)
(* Representation.  An article is a record [gid, chars, description,       *)
(* comments]: gid is its position in the input list (0-based, as Python    *)
(* indexes it), chars is len(title)+len(description)+len(link), and        *)
(* description/comments are tokens <<gid>> (a stored text) or <<>> (the    *)
(* empty string / None).  A Python dict is a sequence of [name, articles]  *)
(* entries in insertion order.  Python lists are sequences; list index i   *)
(* is sequence index i+1.                                                  *)
(***************************************************************************)
EXTENDS Integers, Sequences, FiniteSets, TLC

VARIABLES
    environ,        \* os.environ, as read by the code
    rate_limiter,   \* the ClaudeRateLimiter instance
    pc,             \* position of the caller: "idle", "single", "batches", "done"
    articles,       \* argument of process_articles_with_claude
    batches,        \* _process_articles_in_batches: the planned batches
    batch_idx,      \* _process_articles_in_batches: loop index
    all_categories, \* _process_articles_in_batches: running result
    combined_metadata, \* _process_articles_in_batches: running metadata
    result,         \* what process_articles_with_claude gave its caller
    last_query,     \* value returned by the last direct can_make_request / get_usage_stats
    api_calls,      \* history: invocations of client.messages.create
    usage_log,      \* history: calls of record_usage (count, sum, count inside the run),
                    \* usage the service reported in the run, batches that gave None
    last_batch,     \* history: the batch handled by the last step and its outcome
    split_call,     \* a call of split_articles_into_batches: arguments and return value
    extract_call,   \* a call of extract_json_from_text: arguments and return value
    repair_call,    \* a call of repair_truncated_json: argument and return value
    assemble_call,  \* a call of _create_categorized_articles: arguments and return value
    enrich_call,    \* a batch submitted by submit_email_batch and retrieved by
                    \* retrieve_and_send_email: articles, prompts, merged categories
    group_call      \* a call of group_articles_by_priority: argument and return value

\* the variables of a run of process_articles_with_claude
run_vars == <<environ, rate_limiter, pc, articles, batches, batch_idx, all_categories,
              combined_metadata, result, last_query, api_calls, usage_log, last_batch>>

\* the variables of the calls of single functions
call_vars == <<split_call, extract_call, repair_call, assemble_call, enrich_call, group_call>>

vars == <<run_vars, call_vars>>

-----------------------------------------------------------------------------
(* Bounds of the model *)

\* largest input list
MaxArticles == 17
\* largest max_batch_size handed to split_articles_into_batches on its own
MaxBatchSize == 8
\* most objects and code blocks in a response text
MaxParts == 2
MaxRepairItems == 2
MaxAssembleArticles == 2
MaxItems == 2
\* largest list of articles found by submit_email_batch
MaxEnrichArticles == 7
\* most categories of a result handed to group_articles_by_priority
MaxGroupCategories == 3
\* direct record_usage calls a caller makes on the limiter before the run
MaxDirectCalls == 2

(* Program constants *)

\* process_articles_with_claude: more than this many articles are batched
SingleBatchLimit == 15
\* default of CLAUDE_BATCH_SIZE
DefaultBatchSize == 25
\* repair_truncated_json: texts longer than this may be salvaged
LongText == 10000
\* repair_truncated_json: where the salvage looks for the last complete item
TruncationPoint == 14025
\* default of CLAUDE_MAX_TOKENS
DefaultMaxTokens == 100000
\* default of CLAUDE_MAX_REQUESTS
DefaultMaxRequests == 10
\* estimate_tokens: characters per token
CharsPerToken == 4

(* Input sets *)

ArticleCounts == {0, 1, 2, SingleBatchLimit, MaxArticles}
BatchSizeChoices == {6, DefaultBatchSize}
MaxTokensChoices == {10, DefaultMaxTokens}
MaxRequestsChoices == {2, DefaultMaxRequests}
\* response.usage.input_tokens + response.usage.output_tokens of one call
UsageChoices == {2, 9}
\* estimated_tokens a caller asks can_make_request about
EstimateChoices == {0, 6, 11}

-----------------------------------------------------------------------------
(* Python dict as an insertion-ordered sequence of entries *)

DictHas(d, k) == \E i \in 1..Len(d) : d[i].name = k

DictGet(d, k) == d[CHOOSE i \in 1..Len(d) : d[i].name = k].articles

DictSet(d, k, v) ==
    IF DictHas(d, k)
    THEN [i \in 1..Len(d) |-> IF d[i].name = k THEN [name |-> k, articles |-> v] ELSE d[i]]
    ELSE Append(d, [name |-> k, articles |-> v])

DictExtendReplacing(d, k, v) == DictSet(d, k, v)

\* if k not in d: d[k] = [] ; d[k].extend(v)
DictExtend(d, k, v) ==
    DictSet(d, k, (IF DictHas(d, k) THEN DictGet(d, k) ELSE <<>>) \o v)

-----------------------------------------------------------------------------
(* ClaudeRateLimiter *)

\* ClaudeRateLimiter.__init__
NewRateLimiter(env) ==
    [max_tokens |-> env.CLAUDE_MAX_TOKENS,
     max_requests |-> env.CLAUDE_MAX_REQUESTS,
     current_requests |-> 0,
     current_tokens |-> 0]

CanMakeRequestOffByOne(lim, estimated_tokens) ==
    /\ lim.current_requests <= lim.max_requests
    /\ lim.current_tokens + estimated_tokens <= lim.max_tokens

\* ClaudeRateLimiter.can_make_request
CanMakeRequest(lim, estimated_tokens) ==
    /\ lim.current_requests < lim.max_requests
    /\ lim.current_tokens + estimated_tokens <= lim.max_tokens

RecordUsageTokensOnly(lim, tokens_used) ==
    [lim EXCEPT !.current_tokens = @ + tokens_used]

\* ClaudeRateLimiter.record_usage
RecordUsage(lim, tokens_used) ==
    [lim EXCEPT !.current_requests = @ + 1,
                !.current_tokens = @ + tokens_used]

\* ClaudeRateLimiter.get_usage_stats
GetUsageStats(lim) ==
    [requests_made |-> lim.current_requests,
     tokens_used |-> lim.current_tokens,
     requests_remaining |-> lim.max_requests - lim.current_requests,
     tokens_remaining |-> lim.max_tokens - lim.current_tokens]

-----------------------------------------------------------------------------
(* Configuration and input helpers *)

\* get_anthropic_api_key(None): "key" or the exception it raises
GetAnthropicApiKey(env) ==
    IF env.ANTHROPIC_API_KEY THEN "key"
    ELSE IF ~env.ANTHROPIC_API_KEY_PARAMETER THEN "ValueError"
    ELSE IF env.ssm_parameter_found THEN "key"
    ELSE "ValueError"

\* the input list of n articles
MakeArticles(n) ==
    [i \in 1..n |->
        [gid |-> i - 1,
         chars |-> 3 + ((i - 1) % 3),
         description |-> <<i - 1>>,
         comments |-> IF (i - 1) % 2 = 0 THEN <<i - 1>> ELSE <<>>]]

RECURSIVE TotalChars(_)
TotalChars(arts) ==
    IF arts = <<>> THEN 0 ELSE Head(arts).chars + TotalChars(Tail(arts))

\* estimate_tokens
EstimateTokens(arts) == TotalChars(arts) \div CharsPerToken

ShouldProcessArticlesIgnoringEmpty(arts, env) == env.CLAUDE_ENABLED

\* should_process_articles
ShouldProcessArticles(arts, env) ==
    IF arts = <<>> THEN FALSE
    ELSE IF ~env.CLAUDE_ENABLED THEN FALSE
    ELSE TRUE

Min(a, b) == IF a < b THEN a ELSE b

RECURSIVE SplitFrom(_, _, _)
\* the loop of split_articles_into_batches from offset i (0-based)
SplitFrom(arts, max_batch_size, i) ==
    IF i >= Len(arts) THEN <<>>
    ELSE <<SubSeq(arts, i + 1, Min(i + max_batch_size, Len(arts)))>>
         \o SplitFrom(arts, max_batch_size, i + max_batch_size)

SplitArticlesIntoBatchesOverlapping(arts, max_batch_size) ==
    [k \in 1..((Len(arts) + max_batch_size - 1) \div max_batch_size) |->
        SubSeq(arts, (k - 1) * (max_batch_size - 1) + 1,
               Min((k - 1) * (max_batch_size - 1) + max_batch_size, Len(arts)))]

\* split_articles_into_batches
SplitArticlesIntoBatches(arts, max_batch_size) == SplitFrom(arts, max_batch_size, 0)

CreateFallbackArticlesDropFirst(arts) ==
    [i \in 1..(Len(arts) - 1) |->
        [title |-> arts[i + 1].gid,
         category |-> "Uncategorized",
         original_description |-> arts[i + 1].description,
         comments |-> <<>>]]

\* _create_fallback_articles
CreateFallbackArticles(arts) ==
    [i \in 1..Len(arts) |->
        [title |-> arts[i].gid,
         category |-> "Uncategorized",
         original_description |-> arts[i].description,
         comments |-> <<>>]]

-----------------------------------------------------------------------------
(* The parsed response (categorized_data) and the assembler                 *)
(*                                                                         *)
(* A payload is [top, cats]: top names the shape of the parsed JSON value   *)
(*   "dict_categories"   {"categories": {name: data, ...}}                  *)
(*   "list_categories"   {"categories": [{"name":..,"articles":..}, ...]}   *)
(*   "scalar_categories" {"categories": <number>}                           *)
(*   "toplevel"          {name: data, ...} without a "categories" key       *)
(*   "non_mapping"       a non-empty JSON array                             *)
(*   "falsy"             {} , [] , null , 0                                *)
(* cats is the sequence of [name, kind, items] entries; kind is "list",     *)
(* "dict_articles" ({"articles": [...]}) or "scalar".  An item is           *)
(* [id, title]: id = [wellformed, ordinal] stands for "article_<ordinal>"   *)
(* or, when not wellformed, for an identifier int() cannot read; title is   *)
(* the title the service copied (the gid of the article it describes).      *)

MetadataFields == {"article_count", "verification"}

Item(batch, i) ==
    [id |-> [wellformed |-> TRUE, ordinal |-> i], title |-> batch[i + 1].gid]

MalformedItem(batch, i) ==
    [id |-> [wellformed |-> FALSE, ordinal |-> 0], title |-> batch[i + 1].gid]

FullItems(batch) == [i \in 1..Len(batch) |-> Item(batch, i - 1)]

EvenItems(batch) == SelectSeq(FullItems(batch), LAMBDA it : it.id.ordinal % 2 = 0)

OddItems(batch) == SelectSeq(FullItems(batch), LAMBDA it : it.id.ordinal % 2 = 1)

ListCat(name, items) == [name |-> name, kind |-> "list", items |-> items]

ScalarCat(name) == [name |-> name, kind |-> "scalar", items |-> <<>>]

\* the parsed responses the service may give for a batch
Payloads(batch) ==
    { \* every article once, in two categories
      [top |-> "dict_categories",
       cats |-> <<ListCat("Technology", EvenItems(batch)), ListCat("Science", OddItems(batch))>>],
      \* the last item is missing (truncation salvage dropped it)
      [top |-> "dict_categories",
       cats |-> <<ListCat("Technology", SubSeq(FullItems(batch), 1, Len(batch) - 1))>>],
      \* article 0 is listed in two categories
      [top |-> "dict_categories",
       cats |-> <<ListCat("Technology", FullItems(batch)), ListCat("Science", <<Item(batch, 0)>>)>>],
      \* the only category maps to a number
      [top |-> "dict_categories", cats |-> <<ScalarCat("Technology")>>],
      \* one identifier is malformed
      [top |-> "dict_categories",
       cats |-> <<ListCat("Technology", <<MalformedItem(batch, 0)>> \o Tail(FullItems(batch)))>>],
      \* categories as a list of {name, articles} objects
      [top |-> "list_categories", cats |-> <<ListCat("Technology", FullItems(batch))>>],
      \* categories at the top level, next to the metadata fields
      [top |-> "toplevel",
       cats |-> <<ListCat("Science", FullItems(batch)), ScalarCat("article_count"),
                  ScalarCat("verification")>>],
      [top |-> "scalar_categories", cats |-> <<>>],
      [top |-> "non_mapping", cats |-> <<>>],
      [top |-> "falsy", cats |-> <<>>] }

\* what client.messages.create and the parse / repair of its text come to
Responses(batch) ==
    \* no response arrives
    { [kind |-> "api_error", data |-> [top |-> "falsy", cats |-> <<>>], tokens |-> 0] }
    \cup
    \* a response arrives, with its usage, whose text is empty or cannot be read
    { [kind |-> k, data |-> [top |-> "falsy", cats |-> <<>>], tokens |-> t] :
        k \in {"empty_text", "unparseable"}, t \in UsageChoices }
    \cup
    { [kind |-> "parsed", data |-> d, tokens |-> t] :
        d \in Payloads(batch), t \in UsageChoices }

\* _process_article_entry raises (ValueError / IndexError) on this item
EntryRaises(item) == ~item.id.wellformed

\* _process_article_entry
ProcessArticleEntry(item, arts, category) ==
    LET idx == item.id.ordinal
        in_range == idx < Len(arts)
    IN [title |-> item.title,
        category |-> category,
        original_description |-> IF in_range THEN arts[idx + 1].description ELSE <<>>,
        comments |-> IF in_range THEN arts[idx + 1].comments ELSE <<>>]

ProcessEntries(items, arts, category) ==
    [i \in 1..Len(items) |-> ProcessArticleEntry(items[i], arts, category)]

RECURSIVE ProcessDictionaryFrom(_, _, _)
\* the loop of _process_dictionary_categories, processed being the dict so far
ProcessDictionaryFrom(categories_data, arts, processed) ==
    IF categories_data = <<>> THEN processed
    ELSE LET c == Head(categories_data)
             rest == Tail(categories_data)
         IN IF c.name \in MetadataFields
            THEN ProcessDictionaryFrom(rest, arts, processed)
            ELSE IF c.kind \notin {"list", "dict_articles"}
            THEN ProcessDictionaryFrom(rest, arts, processed)
            ELSE IF c.items = <<>>
            THEN ProcessDictionaryFrom(rest, arts, processed)
            ELSE ProcessDictionaryFrom(rest, arts,
                    DictSet(processed, c.name, ProcessEntries(c.items, arts, c.name)))

\* _process_dictionary_categories
ProcessDictionaryCategories(categories_data, arts) ==
    ProcessDictionaryFrom(categories_data, arts, <<>>)

RECURSIVE ProcessListFrom(_, _, _)
\* the loop of _process_list_categories
ProcessListFrom(categories_data, arts, processed) ==
    IF categories_data = <<>> THEN processed
    ELSE LET c == Head(categories_data)
             rest == Tail(categories_data)
         IN IF c.kind # "list"
            THEN ProcessListFrom(rest, arts, processed)
            ELSE IF c.items = <<>>
            THEN ProcessListFrom(rest, arts, processed)
            ELSE ProcessListFrom(rest, arts,
                    DictSet(processed, c.name, ProcessEntries(c.items, arts, c.name)))

ProcessListCategoriesFirstOnly(categories_data, arts) ==
    IF categories_data = <<>> THEN <<>>
    ELSE ProcessListFrom(<<Head(categories_data)>>, arts, <<>>)

\* _process_list_categories
ProcessListCategories(categories_data, arts) ==
    ProcessListFrom(categories_data, arts, <<>>)

\* the loops reach _process_article_entry for the items of this entry
EntryProcessed(top, c) ==
    IF top = "list_categories" THEN c.kind = "list"
    ELSE IF top \in {"dict_categories", "toplevel"}
    THEN c.name \notin MetadataFields /\ c.kind \in {"list", "dict_articles"}
    ELSE FALSE

AssemblyRaisesOnScalar(data) ==
    \E i \in 1..Len(data.cats) :
        \/ data.cats[i].kind = "scalar"
        \/ \E j \in 1..Len(data.cats[i].items) : ~data.cats[i].items[j].id.wellformed

\* an exception of the except clause of _create_categorized_articles is raised
\* while the categories are processed
AssemblyRaises(data) ==
    \E i \in 1..Len(data.cats) :
        /\ EntryProcessed(data.top, data.cats[i])
        /\ \E j \in 1..Len(data.cats[i].items) : EntryRaises(data.cats[i].items[j])

\* _create_categorized_articles: [ret, categories, tokens_used]
CreateCategorizedArticles(data, arts, tokens_used) ==
    IF data.top = "non_mapping"
    THEN [ret |-> "AttributeError", categories |-> <<>>, tokens_used |-> tokens_used]
    ELSE IF AssemblyRaises(data)
    THEN [ret |-> "result",
          categories |-> <<[name |-> "Uncategorized", articles |-> CreateFallbackArticles(arts)]>>,
          tokens_used |-> tokens_used]
    ELSE [ret |-> "result",
          categories |->
             CASE data.top = "dict_categories" -> ProcessDictionaryCategories(data.cats, arts)
               [] data.top = "list_categories" -> ProcessListCategories(data.cats, arts)
               [] data.top = "toplevel" ->
                    ProcessDictionaryCategories(
                        SelectSeq(data.cats, LAMBDA c : c.name \notin MetadataFields), arts)
               [] OTHER -> <<>>,
          tokens_used |-> tokens_used]

-----------------------------------------------------------------------------
(* The per-batch client call *)

CheckRateLimitsAlwaysTrue(arts, lim) == TRUE

CheckRateLimitsOfFreshLimiter(arts, lim) ==
    CanMakeRequest([lim EXCEPT !.current_requests = 0, !.current_tokens = 0],
                   EstimateTokens(arts))

\* _check_rate_limits
CheckRateLimits(arts, lim) == CanMakeRequest(lim, EstimateTokens(arts))

\* _call_claude_api: the call of client.messages.create, the parse of its text
\* and the usage accounting.  has_data is FALSE for the return (None, None).
CallClaudeApi(arts, lim, resp) ==
    IF resp.kind = "api_error"
    THEN [has_data |-> FALSE, outcome |-> "api_error", tokens_used |-> 0,
          limiter |-> lim, recorded |-> FALSE]
    ELSE IF resp.kind = "empty_text"
    THEN [has_data |-> FALSE, outcome |-> "empty_text", tokens_used |-> 0,
          limiter |-> lim, recorded |-> FALSE]
    ELSE IF resp.kind = "unparseable"
    THEN [has_data |-> FALSE, outcome |-> "unparseable", tokens_used |-> 0,
          limiter |-> lim, recorded |-> FALSE]
    ELSE IF resp.data.top = "falsy"
    THEN [has_data |-> FALSE, outcome |-> "falsy_data", tokens_used |-> 0,
          limiter |-> lim, recorded |-> FALSE]
    ELSE [has_data |-> TRUE, outcome |-> "parsed", tokens_used |-> resp.tokens,
          limiter |-> RecordUsage(lim, resp.tokens), recorded |-> TRUE]

ClientReturn(ret, outcome, categories, tokens_used, lim, called, recorded) ==
    [ret |-> ret, outcome |-> outcome, categories |-> categories,
     tokens_used |-> tokens_used, limiter |-> lim, called |-> called,
     recorded |-> recorded]

\* _process_with_claude_client.  ret is "result" (a CategorizedArticles),
\* "None", or the name of the exception that leaves the function.
ProcessWithClaudeClient(arts, lim, env, resp) ==
    IF GetAnthropicApiKey(env) = "ValueError"
    THEN ClientReturn("ValueError", "config_error", <<>>, 0, lim, FALSE, FALSE)
    ELSE IF ~CheckRateLimits(arts, lim)
    THEN ClientReturn("None", "budget_denied", <<>>, 0, lim, FALSE, FALSE)
    ELSE LET api == CallClaudeApi(arts, lim, resp)
         IN IF ~api.has_data
            THEN ClientReturn("None", api.outcome, <<>>, 0, api.limiter, TRUE, api.recorded)
            ELSE LET c == CreateCategorizedArticles(resp.data, arts, api.tokens_used)
                 IN ClientReturn(c.ret, "parsed", c.categories, c.tokens_used,
                                 api.limiter, TRUE, api.recorded)

-----------------------------------------------------------------------------
(* The orchestrator *)

NoMetadata ==
    [articles_count |-> 0, tokens_used |-> 0, batches_processed |-> 0,
     total_batches |-> 0, batches_failed |-> 0]

\* usage_stats of _call_claude_api, as processing_metadata
UsageStats(arts, tokens_used) ==
    [NoMetadata EXCEPT !.articles_count = Len(arts), !.tokens_used = tokens_used]

Pending == [kind |-> "pending", categories |-> <<>>, metadata |-> NoMetadata]
ReturnNone == [kind |-> "None", categories |-> <<>>, metadata |-> NoMetadata]
Raised == [kind |-> "raised", categories |-> <<>>, metadata |-> NoMetadata]
ReturnResult(categories, metadata) ==
    [kind |-> "result", categories |-> categories, metadata |-> metadata]

ProcessArticlesCatchesWithoutValueError ==
    {"JSONDecodeError", "APIError", "KeyError", "IndexError", "ClientError"}

\* the except clause of process_articles_with_claude
ProcessArticlesCatches ==
    {"JSONDecodeError", "APIError", "KeyError", "IndexError", "ValueError", "ClientError"}

\* an exception reaches process_articles_with_claude: caught (result stays
\* None) or passed on to the caller
AfterException(exc) ==
    IF exc \in ProcessArticlesCatches THEN ReturnNone ELSE Raised

SingleBatchResultWithFallback(arts, r) ==
    CASE r.ret = "result" -> ReturnResult(r.categories, UsageStats(arts, r.tokens_used))
      [] r.ret = "None" ->
           ReturnResult(<<[name |-> "Uncategorized", articles |-> CreateFallbackArticles(arts)]>>,
                        UsageStats(arts, 0))
      [] OTHER -> AfterException(r.ret)

\* process_articles_with_claude, single-batch path: what the caller gets for
\* the outcome r of _process_with_claude_client
SingleBatchResult(arts, r) ==
    CASE r.ret = "result" -> ReturnResult(r.categories, UsageStats(arts, r.tokens_used))
      [] r.ret = "None" -> ReturnNone
      [] OTHER -> AfterException(r.ret)

RECURSIVE MergeCategories(_, _)
\* the merge loop of _process_articles_in_batches
MergeCategories(target, source) ==
    IF source = <<>> THEN target
    ELSE MergeCategories(DictExtend(target, Head(source).name, Head(source).articles),
                         Tail(source))

MergeFailedBatchReplacing(target, batch) ==
    <<[name |-> "Uncategorized", articles |-> CreateFallbackArticles(batch)]>>

\* the failed-batch branch of _process_articles_in_batches
MergeFailedBatch(target, batch) ==
    DictExtend(target, "Uncategorized", CreateFallbackArticles(batch))

NoQuery ==
    [call |-> "none", estimated_tokens |-> 0, can |-> FALSE,
     stats |-> GetUsageStats(NewRateLimiter([CLAUDE_MAX_TOKENS |-> 0, CLAUDE_MAX_REQUESTS |-> 0]))]

NoBatch ==
    [arts |-> <<>>, ret |-> "none", outcome |-> "none", categories |-> <<>>,
     can_spend |-> FALSE]

\* what the step recorded about the batch it handled
BatchRecord(arts, lim, r) ==
    [arts |-> arts, ret |-> r.ret, outcome |-> r.outcome, categories |-> r.categories,
     can_spend |-> lim.current_requests < lim.max_requests
                   /\ lim.current_tokens + EstimateTokens(arts) <= lim.max_tokens]

LogUsage(log, r, in_run) ==
    IF r.recorded
    THEN [log EXCEPT !.calls = @ + 1, !.sum = @ + r.tokens_used,
                     !.run_calls = @ + (IF in_run THEN 1 ELSE 0)]
    ELSE log

\* history of the run: response.usage of the response that arrived, and the
\* batches of the loop for which _process_with_claude_client returned None
LogReported(log, r, resp, in_loop) ==
    [log EXCEPT !.reported = @ + (IF r.called /\ resp.kind # "api_error" THEN resp.tokens ELSE 0),
                !.failed = @ + (IF in_loop /\ r.ret = "None" THEN 1 ELSE 0)]

\* no call of split_articles_into_batches is studied
NoSplitCall == [articles |-> <<>>, max_batch_size |-> 1, returned |-> FALSE, batches |-> <<>>]

\* no call of extract_json_from_text is studied
NoExtractCall ==
    [text |-> <<>>, required_fields |-> <<>>, dumped |-> [t |-> "null", s |-> <<>>, kids |-> <<>>],
     returned |-> FALSE,
     result |-> [found |-> FALSE, val |-> [t |-> "null", s |-> <<>>, kids |-> <<>>],
                 strategy |-> "none"]]

\* no call of repair_truncated_json is studied
NoRepairCall ==
    [json_str |-> <<>>, returned |-> FALSE,
     result |-> [val |-> [t |-> "null", s |-> <<>>, kids |-> <<>>], path |-> "blank"]]

\* no call of _create_categorized_articles is studied
NoAssembleCall ==
    [data |-> [top |-> "falsy", cats |-> <<>>], articles |-> <<>>, returned |-> FALSE,
     result |-> [ret |-> "none", categories |-> <<>>, tokens_used |-> 0]]

\* no batch is submitted by submit_email_batch
NoEnrichCall ==
    [articles |-> <<>>, max_batch_size |-> 1, submitted |-> FALSE, prompts |-> <<>>,
     retrieved |-> 0, all_categories |-> <<>>]

\* no call of group_articles_by_priority is studied
NoGroupCall == [categories |-> <<>>, returned |-> FALSE, ordered |-> <<>>]

Environs ==
    { e \in [CLAUDE_MAX_TOKENS : MaxTokensChoices,
             CLAUDE_MAX_REQUESTS : MaxRequestsChoices,
             CLAUDE_BATCH_SIZE : BatchSizeChoices,
             CLAUDE_ENABLED : BOOLEAN,
             ANTHROPIC_API_KEY : BOOLEAN,
             ANTHROPIC_API_KEY_PARAMETER : BOOLEAN,
             ssm_parameter_found : BOOLEAN] :
        \* the parameter store is consulted only without ANTHROPIC_API_KEY
        /\ e.ANTHROPIC_API_KEY => (~e.ANTHROPIC_API_KEY_PARAMETER /\ ~e.ssm_parameter_found)
        /\ e.ssm_parameter_found => e.ANTHROPIC_API_KEY_PARAMETER
        \* the limits play no part when nothing is sent
        /\ (~e.CLAUDE_ENABLED \/ ~e.ANTHROPIC_API_KEY) =>
             (e.CLAUDE_MAX_TOKENS = DefaultMaxTokens /\ e.CLAUDE_MAX_REQUESTS = DefaultMaxRequests)
        /\ ~e.CLAUDE_ENABLED => (e.ANTHROPIC_API_KEY /\ e.CLAUDE_BATCH_SIZE = DefaultBatchSize)
        /\ e.ssm_parameter_found => e.CLAUDE_BATCH_SIZE = DefaultBatchSize }

Init ==
    /\ environ \in Environs
    /\ rate_limiter = NewRateLimiter(environ)
    /\ pc = "idle"
    /\ articles = <<>>
    /\ batches = <<>>
    /\ batch_idx = 0
    /\ all_categories = <<>>
    /\ combined_metadata = NoMetadata
    /\ result = Pending
    /\ last_query = NoQuery
    /\ api_calls = 0
    /\ usage_log = [calls |-> 0, sum |-> 0, run_calls |-> 0, reported |-> 0, failed |-> 0]
    /\ last_batch = NoBatch
    /\ split_call = NoSplitCall
    /\ extract_call = NoExtractCall
    /\ repair_call = NoRepairCall
    /\ assemble_call = NoAssembleCall
    /\ enrich_call = NoEnrichCall
    /\ group_call = NoGroupCall

\* a caller invokes rate_limiter.record_usage
DirectRecordUsage(t) ==
    /\ UNCHANGED call_vars
    /\ pc = "idle"
    /\ usage_log.calls < MaxDirectCalls
    /\ rate_limiter' = RecordUsage(rate_limiter, t)
    /\ usage_log' = [usage_log EXCEPT !.calls = @ + 1, !.sum = @ + t]
    /\ last_query' = NoQuery
    /\ UNCHANGED <<environ, pc, articles, batches, batch_idx, all_categories,
                   combined_metadata, result, api_calls, last_batch>>

\* a caller invokes rate_limiter.can_make_request
DirectCanMakeRequest(e) ==
    /\ UNCHANGED call_vars
    /\ pc = "idle"
    /\ last_query' = [NoQuery EXCEPT !.call = "can_make_request",
                                     !.estimated_tokens = e,
                                     !.can = CanMakeRequest(rate_limiter, e)]
    /\ UNCHANGED <<environ, rate_limiter, pc, articles, batches, batch_idx,
                   all_categories, combined_metadata, result, api_calls, usage_log,
                   last_batch>>

\* a caller invokes rate_limiter.get_usage_stats
DirectGetUsageStats ==
    /\ UNCHANGED call_vars
    /\ pc = "idle"
    /\ last_query' = [NoQuery EXCEPT !.call = "get_usage_stats",
                                     !.stats = GetUsageStats(rate_limiter)]
    /\ UNCHANGED <<environ, rate_limiter, pc, articles, batches, batch_idx,
                   all_categories, combined_metadata, result, api_calls, usage_log,
                   last_batch>>

\* process_articles_with_claude up to the choice of the path, with the set-up
\* of _process_articles_in_batches
EnterProcessArticles(n) ==
    /\ UNCHANGED call_vars
    /\ pc = "idle"
    /\ articles' = MakeArticles(n)
    /\ last_query' = NoQuery
    /\ IF ~ShouldProcessArticles(articles', environ)
       THEN /\ result' = ReturnNone
            /\ pc' = "done"
            /\ UNCHANGED <<batches, combined_metadata>>
       ELSE IF Len(articles') > SingleBatchLimit
       THEN /\ batches' = SplitArticlesIntoBatches(articles', environ.CLAUDE_BATCH_SIZE)
            /\ combined_metadata' =
                 [NoMetadata EXCEPT !.articles_count = Len(articles'),
                                    !.total_batches = Len(batches')]
            /\ pc' = "batches"
            /\ UNCHANGED result
       ELSE /\ pc' = "single"
            /\ UNCHANGED <<batches, combined_metadata, result>>
    /\ UNCHANGED <<environ, rate_limiter, batch_idx, all_categories, api_calls,
                   usage_log, last_batch>>

\* process_articles_with_claude, single-batch path
ProcessSingleBatch ==
    /\ UNCHANGED call_vars
    /\ pc = "single"
    /\ \E resp \in Responses(articles) :
       LET r == ProcessWithClaudeClient(articles, rate_limiter, environ, resp)
       IN /\ rate_limiter' = r.limiter
          /\ api_calls' = api_calls + (IF r.called THEN 1 ELSE 0)
          /\ usage_log' = LogReported(LogUsage(usage_log, r, TRUE), r, resp, FALSE)
          /\ last_batch' = BatchRecord(articles, rate_limiter, r)
          /\ result' = SingleBatchResult(articles, r)
    /\ pc' = "done"
    /\ UNCHANGED <<environ, articles, batches, batch_idx, all_categories,
                   combined_metadata, last_query>>

\* one iteration of the loop of _process_articles_in_batches
ProcessBatch ==
    /\ UNCHANGED call_vars
    /\ pc = "batches"
    /\ batch_idx < Len(batches)
    /\ \E resp \in Responses(batches[batch_idx + 1]) :
       LET batch == batches[batch_idx + 1]
           r == ProcessWithClaudeClient(batch, rate_limiter, environ, resp)
       IN /\ rate_limiter' = r.limiter
          /\ api_calls' = api_calls + (IF r.called THEN 1 ELSE 0)
          /\ usage_log' = LogReported(LogUsage(usage_log, r, TRUE), r, resp, TRUE)
          /\ last_batch' = BatchRecord(batch, rate_limiter, r)
          /\ CASE r.ret = "None" ->
                    /\ combined_metadata' = [combined_metadata EXCEPT !.batches_failed = @ + 1]
                    /\ all_categories' = MergeFailedBatch(all_categories, batch)
                    /\ batch_idx' = batch_idx + 1
                    /\ UNCHANGED <<pc, result>>
               [] r.ret = "result" ->
                    /\ all_categories' = MergeCategories(all_categories, r.categories)
                    /\ combined_metadata' =
                         [combined_metadata EXCEPT !.batches_processed = @ + 1,
                                                   !.tokens_used = @ + r.tokens_used]
                    /\ batch_idx' = batch_idx + 1
                    /\ UNCHANGED <<pc, result>>
               [] OTHER ->
                    \* an exception leaves _process_articles_in_batches
                    /\ result' = AfterException(r.ret)
                    /\ pc' = "done"
                    /\ UNCHANGED <<all_categories, combined_metadata, batch_idx>>
    /\ UNCHANGED <<environ, articles, batches, last_query>>

\* the end of _process_articles_in_batches and the return of
\* process_articles_with_claude
FinishBatches ==
    /\ UNCHANGED call_vars
    /\ pc = "batches"
    /\ batch_idx = Len(batches)
    /\ result' = IF all_categories = <<>> THEN ReturnNone
                 ELSE ReturnResult(all_categories, combined_metadata)
    /\ pc' = "done"
    /\ UNCHANGED <<environ, rate_limiter, articles, batches, batch_idx, all_categories,
                   combined_metadata, last_query, api_calls, usage_log, last_batch>>

Next ==
    \/ \E t \in UsageChoices : DirectRecordUsage(t)
    \/ \E e \in EstimateChoices : DirectCanMakeRequest(e)
    \/ DirectGetUsageStats
    \/ \E n \in ArticleCounts : EnterProcessArticles(n)
    \/ ProcessSingleBatch
    \/ ProcessBatch
    \/ FinishBatches

Spec == Init /\ [][Next]_vars

-----------------------------------------------------------------------------
(* JSON texts and values (json.loads, json.dumps)                           *)
(*                                                                         *)
(* A text is a sequence of tokens.  A token is a character of the JSON      *)
(* syntax ("{", "}", "[", "]", ":", ",", the quote), a blank " ", or an     *)
(* indivisible run of other characters: a word, a number, an HTML entity,   *)
(* an HTML tag, the fence of three backticks.  A backslash is a token of    *)
(* its own: an escaped quote is a backslash and a quote.  A value           *)
(* is a record [t, s, kids]: t its type, s the characters of a string (or   *)
(* of a member's key), kids the members of an object (each a "member"       *)
(* with one kid, its value) or the elements of an array.                    *)

Quote == "\""
Backslash == "\\"
Blank == " "
\* the three backticks that open or close a code block
Fence == "fence"
\* a run of PaddingLen letters p
Padding == "padding"
\* the length of the run of letters that Padding stands for
PaddingLen == 13900

NumberTokens == {"1", "5"}

JNull == [t |-> "null", s |-> <<>>, kids |-> <<>>]
JNum(n) == [t |-> "number", s |-> <<n>>, kids |-> <<>>]
JStr(chars) == [t |-> "string", s |-> chars, kids |-> <<>>]
JArr(elems) == [t |-> "array", s |-> <<>>, kids |-> elems]
JMember(key, value) == [t |-> "member", s |-> key, kids |-> <<value>>]
JObj(members) == [t |-> "object", s |-> <<>>, kids |-> members]

\* obj[key]
JGet(obj, key) ==
    obj.kids[CHOOSE i \in 1..Len(obj.kids) : obj.kids[i].s = key].kids[1]

\* key in obj
JHas(obj, key) == \E i \in 1..Len(obj.kids) : obj.kids[i].s = key

\* members[key] = value of a dict under construction: a repeated key keeps its
\* place and takes the later value
JPut(members, key, value) ==
    IF \E i \in 1..Len(members) : members[i].s = key
    THEN [i \in 1..Len(members) |->
            IF members[i].s = key THEN JMember(key, value) ELSE members[i]]
    ELSE Append(members, JMember(key, value))

\* a JSONDecodeError with its message (the quotes around the delimiter left
\* out) and the index of the token it points at
DecodeError(msg, i) == [ok |-> FALSE, val |-> JNull, pos |-> i, err |-> msg]

Decoded(value, pos) == [ok |-> TRUE, val |-> value, pos |-> pos, err |-> ""]

RECURSIVE SkipBlanks(_, _)
\* the index of the first token from i on that is not a blank
SkipBlanks(txt, i) ==
    IF i <= Len(txt) /\ txt[i] = Blank THEN SkipBlanks(txt, i + 1) ELSE i

RECURSIVE ScanStringFrom(_, _, _, _)
\* the rest of the string literal opened at txt[begin] from txt[i] on, chars
\* being its characters so far: a backslash and a quote stand for a quote
ScanStringFrom(txt, begin, i, chars) ==
    IF i > Len(txt) THEN DecodeError("Unterminated string starting at", begin)
    ELSE IF txt[i] = Quote THEN Decoded(JStr(chars), i + 1)
    ELSE IF txt[i] = Backslash
    THEN IF i + 1 > Len(txt) THEN DecodeError("Unterminated string starting at", begin)
         ELSE IF txt[i + 1] = Quote
         THEN ScanStringFrom(txt, begin, i + 2, Append(chars, Quote))
         ELSE DecodeError("Invalid \\escape", i)
    ELSE ScanStringFrom(txt, begin, i + 1, Append(chars, txt[i]))

\* the string literal whose opening quote is txt[i]
ScanString(txt, i) == ScanStringFrom(txt, i, i + 1, <<>>)

RECURSIVE ScanValue(_, _)
RECURSIVE ScanMembers(_, _, _)
RECURSIVE ScanElements(_, _, _)

\* the members of an object from txt[i] on, a key being expected at i
ScanMembers(txt, i, members) ==
    IF i > Len(txt) \/ txt[i] # Quote
    THEN DecodeError("Expecting property name enclosed in double quotes", i)
    ELSE LET key == ScanString(txt, i)
         IN IF ~key.ok THEN key
            ELSE LET c == SkipBlanks(txt, key.pos)
                 IN IF c > Len(txt) \/ txt[c] # ":"
                    THEN DecodeError("Expecting : delimiter", c)
                    ELSE LET v == ScanValue(txt, c + 1)
                         IN IF ~v.ok THEN v
                            ELSE LET e == SkipBlanks(txt, v.pos)
                                     now == JPut(members, key.val.s, v.val)
                                 IN IF e <= Len(txt) /\ txt[e] = "}"
                                    THEN Decoded(JObj(now), e + 1)
                                    ELSE IF e > Len(txt) \/ txt[e] # ","
                                    THEN DecodeError("Expecting , delimiter", e)
                                    ELSE ScanMembers(txt, SkipBlanks(txt, e + 1), now)

\* the elements of an array from txt[i] on, a value being expected at i
ScanElements(txt, i, elems) ==
    LET v == ScanValue(txt, i)
    IN IF ~v.ok THEN v
       ELSE LET e == SkipBlanks(txt, v.pos)
                now == Append(elems, v.val)
            IN IF e <= Len(txt) /\ txt[e] = "]"
               THEN Decoded(JArr(now), e + 1)
               ELSE IF e > Len(txt) \/ txt[e] # ","
               THEN DecodeError("Expecting , delimiter", e)
               ELSE ScanElements(txt, e + 1, now)

\* the value that starts at or after txt[i0]
ScanValue(txt, i0) ==
    LET i == SkipBlanks(txt, i0)
    IN IF i > Len(txt) THEN DecodeError("Expecting value", i)
       ELSE IF txt[i] = Quote THEN ScanString(txt, i)
       ELSE IF txt[i] = "{"
       THEN LET j == SkipBlanks(txt, i + 1)
            IN IF j <= Len(txt) /\ txt[j] = "}"
               THEN Decoded(JObj(<<>>), j + 1)
               ELSE ScanMembers(txt, j, <<>>)
       ELSE IF txt[i] = "["
       THEN LET j == SkipBlanks(txt, i + 1)
            IN IF j <= Len(txt) /\ txt[j] = "]"
               THEN Decoded(JArr(<<>>), j + 1)
               ELSE ScanElements(txt, i + 1, <<>>)
       ELSE IF txt[i] \in NumberTokens THEN Decoded(JNum(txt[i]), i + 1)
       ELSE IF txt[i] = "null" THEN Decoded(JNull, i + 1)
       ELSE DecodeError("Expecting value", i)

\* json.loads: the value, or the JSONDecodeError
JsonLoads(txt) ==
    LET v == ScanValue(txt, 1)
    IN IF ~v.ok THEN v
       ELSE IF SkipBlanks(txt, v.pos) <= Len(txt)
       THEN DecodeError("Extra data", SkipBlanks(txt, v.pos))
       ELSE v

RECURSIVE DumpsChars(_)
\* the characters of a string literal, a quote escaped by a backslash
DumpsChars(chars) ==
    IF chars = <<>> THEN <<>>
    ELSE (IF Head(chars) = Quote THEN <<Backslash, Quote>> ELSE <<Head(chars)>>)
         \o DumpsChars(Tail(chars))

RECURSIVE JsonDumps(_)
RECURSIVE DumpsJoined(_)
\* the texts of the kids, joined by ", "
DumpsJoined(kids) ==
    IF kids = <<>> THEN <<>>
    ELSE IF Len(kids) = 1 THEN JsonDumps(kids[1])
    ELSE JsonDumps(kids[1]) \o <<",", Blank>> \o DumpsJoined(Tail(kids))

\* a string literal
DumpsString(chars) == <<Quote>> \o DumpsChars(chars) \o <<Quote>>

\* json.dumps
JsonDumps(v) ==
    CASE v.t = "object" -> <<"{">> \o DumpsJoined(v.kids) \o <<"}">>
      [] v.t = "array" -> <<"[">> \o DumpsJoined(v.kids) \o <<"]">>
      [] v.t = "member" -> DumpsString(v.s) \o <<":", Blank>> \o JsonDumps(v.kids[1])
      [] v.t = "string" -> DumpsString(v.s)
      [] v.t = "number" -> v.s
      [] OTHER -> <<"null">>

-----------------------------------------------------------------------------
(* json_utils.py: extract_json_from_text and its strategies                 *)
(*                                                                         *)
(* An Optional[dict] is [found, val]: found is FALSE for None.              *)

None == [found |-> FALSE, val |-> JNull]
Some(value) == [found |-> TRUE, val |-> value]

\* len(text): the fence is three characters, every other token its spelling
CharLen(tok) == IF tok = Fence THEN 3 ELSE IF tok = Padding THEN PaddingLen ELSE Len(tok)

RECURSIVE TextLen(_)
TextLen(txt) ==
    IF txt = <<>> THEN 0
    ELSE IF Len(txt) = 1 THEN CharLen(txt[1])
    ELSE TextLen(SubSeq(txt, 1, Len(txt) \div 2))
         + TextLen(SubSeq(txt, Len(txt) \div 2 + 1, Len(txt)))

\* bool(value)
Truthy(v) ==
    CASE v.t \in {"object", "array"} -> v.kids # <<>>
      [] v.t = "string" -> v.s # <<>>
      [] v.t = "number" -> TRUE
      [] OTHER -> FALSE

\* text.strip()
Strip(txt) ==
    LET solid == {i \in 1..Len(txt) : txt[i] # Blank}
    IN IF solid = {} THEN <<>>
       ELSE SubSeq(txt, CHOOSE i \in solid : \A j \in solid : i <= j,
                        CHOOSE i \in solid : \A j \in solid : i >= j)

\* is_valid_json_object
IsValidJsonObject(obj, required_fields) ==
    IF obj.t # "object" THEN FALSE
    ELSE IF required_fields # <<>>
    THEN \A n \in 1..Len(required_fields) : JHas(obj, required_fields[n])
    ELSE TRUE

\* json.loads(text) and is_valid_json_object of its value; None on a decode
\* error or an invalid object
LoadValid(txt, required_fields) ==
    LET Valid(parsed) ==
            IF parsed.ok /\ IsValidJsonObject(parsed.val, required_fields)
            THEN Some(parsed.val) ELSE None
    IN Valid(JsonLoads(txt))

EntityFields == {<<"title">>, <<"summary">>}

\* html.unescape of one character or entity
UnescapeChar(tok) ==
    CASE tok = "&amp;" -> "&"
      [] tok = "&quot;" -> Quote
      [] tok = "&lt;" -> "<"
      [] OTHER -> tok

\* html.unescape
HtmlUnescape(chars) == [n \in 1..Len(chars) |-> UnescapeChar(chars[n])]

RECURSIVE ProcessHtmlEntitiesInJsonEveryField(_)
ProcessHtmlEntitiesInJsonEveryField(json_obj) ==
    CASE json_obj.t \in {"object", "array", "member"} ->
            [json_obj EXCEPT !.kids =
                [n \in 1..Len(json_obj.kids) |->
                    ProcessHtmlEntitiesInJsonEveryField(json_obj.kids[n])]]
      [] json_obj.t = "string" -> JStr(HtmlUnescape(json_obj.s))
      [] OTHER -> json_obj

RECURSIVE ProcessHtmlEntitiesInJson(_)
\* process_html_entities_in_json
ProcessHtmlEntitiesInJson(json_obj) ==
    IF json_obj.t # "object" THEN json_obj
    ELSE JObj([n \in 1..Len(json_obj.kids) |->
            LET key == json_obj.kids[n].s
                value == json_obj.kids[n].kids[1]
            IN IF value.t = "object"
               THEN JMember(key, ProcessHtmlEntitiesInJson(value))
               ELSE IF value.t = "array"
               THEN JMember(key, JArr([m \in 1..Len(value.kids) |->
                        LET item == value.kids[m]
                        IN IF item.t = "object" THEN ProcessHtmlEntitiesInJson(item)
                           ELSE IF item.t = "string" /\ key \in EntityFields
                           THEN JStr(HtmlUnescape(item.s))
                           ELSE item]))
               ELSE IF key \in EntityFields /\ value.t = "string"
               THEN JMember(key, JStr(HtmlUnescape(value.s)))
               ELSE json_obj.kids[n]])

RECURSIVE BalancedEndFrom(_, _, _)
\* from txt[i] on with bracket_count braces open: the index at which the count
\* comes back to zero, 0 if it never does
BalancedEndFrom(txt, i, bracket_count) ==
    IF i > Len(txt) THEN 0
    ELSE IF txt[i] = "{" THEN BalancedEndFrom(txt, i + 1, bracket_count + 1)
    ELSE IF txt[i] = "}"
    THEN IF bracket_count = 1 THEN i ELSE BalancedEndFrom(txt, i + 1, bracket_count - 1)
    ELSE BalancedEndFrom(txt, i + 1, bracket_count)

\* the index of the brace that closes the brace txt[start], 0 if none does
BalancedEnd(txt, start) == BalancedEndFrom(txt, start, 0)

\* extract_json_at_position
ExtractJsonAtPosition(txt, start) ==
    LET end == BalancedEnd(txt, start)
    IN IF end = 0 THEN None
       ELSE LET parsed == JsonLoads(SubSeq(txt, start, end))
            IN IF parsed.ok THEN Some(parsed.val) ELSE None

\* the first of a list of Optional values that is there
FirstFound(options) ==
    LET hits == {n \in 1..Len(options) : options[n].found}
    IN IF hits = {} THEN None
       ELSE options[CHOOSE n \in hits : \A m \in hits : n <= m]

\* extract_json_with_bracket_balancing
ExtractJsonWithBracketBalancing(txt, required_fields) ==
    LET start_positions == SelectSeq([i \in 1..Len(txt) |-> i], LAMBDA i : txt[i] = "{")
        candidates ==
            [n \in 1..Len(start_positions) |->
                LET json_candidate == ExtractJsonAtPosition(txt, start_positions[n])
                IN IF /\ json_candidate.found
                      /\ Truthy(json_candidate.val)
                      /\ IsValidJsonObject(json_candidate.val, required_fields)
                   THEN json_candidate ELSE None]
    IN FirstFound(candidates)

\* the first code block the pattern ```(?:json)?\s*(\{[\s\S]*?\})\s*``` matches
\* when it is tried at the fence txt[i]: [found, start, end] of group 1
FencedObjectAt(txt, i) ==
    LET after_tag == IF i + 1 <= Len(txt) /\ txt[i + 1] = "json" THEN i + 2 ELSE i + 1
        start == SkipBlanks(txt, after_tag)
        ends == {k \in (start + 1)..Len(txt) :
                    /\ txt[k] = "}"
                    /\ SkipBlanks(txt, k + 1) <= Len(txt)
                    /\ txt[SkipBlanks(txt, k + 1)] = Fence}
    IN IF start <= Len(txt) /\ txt[start] = "{" /\ ends # {}
       THEN [found |-> TRUE, start |-> start,
             end |-> CHOOSE k \in ends : \A l \in ends : k <= l]
       ELSE [found |-> FALSE, start |-> 0, end |-> 0]

\* re.search of that pattern: the match at the leftmost fence that has one
FencedObject(txt) ==
    LET hits == {i \in 1..Len(txt) : txt[i] = Fence /\ FencedObjectAt(txt, i).found}
    IN IF hits = {} THEN [found |-> FALSE, start |-> 0, end |-> 0]
       ELSE FencedObjectAt(txt, CHOOSE i \in hits : \A j \in hits : i <= j)

RECURSIVE BalancedMatchesFrom(_, _)
\* regex.findall(r"\{(?:[^{}]|(?R))*\}", text) from txt[p] on: the balanced
\* brace groups, left to right, none inside another
BalancedMatchesFrom(txt, p) ==
    IF p > Len(txt) THEN <<>>
    ELSE IF txt[p] = "{" /\ BalancedEnd(txt, p) # 0
    THEN <<SubSeq(txt, p, BalancedEnd(txt, p))>>
         \o BalancedMatchesFrom(txt, BalancedEnd(txt, p) + 1)
    ELSE BalancedMatchesFrom(txt, p + 1)

RECURSIVE InsertByLen(_, _)
\* m put into the list sorted by falling length, behind its equals
InsertByLen(sorted, m) ==
    IF sorted = <<>> THEN <<m>>
    ELSE IF TextLen(m) > TextLen(Head(sorted)) THEN <<m>> \o sorted
    ELSE <<Head(sorted)>> \o InsertByLen(Tail(sorted), m)

RECURSIVE SortedByLenFrom(_, _)
SortedByLenFrom(matches, sorted) ==
    IF matches = <<>> THEN sorted
    ELSE SortedByLenFrom(Tail(matches), InsertByLen(sorted, Head(matches)))

\* sorted(matches, key=len, reverse=True)
SortedByLen(matches) == SortedByLenFrom(matches, <<>>)

\* extract_json_using_regex
ExtractJsonUsingRegex(txt, required_fields) ==
    LET fenced == FencedObject(txt)
        in_block == IF fenced.found
                    THEN LoadValid(Strip(SubSeq(txt, fenced.start, fenced.end)), required_fields)
                    ELSE None
        matches == SortedByLen(BalancedMatchesFrom(txt, 1))
    IN IF in_block.found THEN in_block
       ELSE FirstFound([n \in 1..Len(matches) |-> LoadValid(matches[n], required_fields)])

RECURSIVE BacktickMatchesFrom(_, _)
\* re.findall(r"```(?:json)?\s*(.*?)\s*```", text, re.DOTALL) from txt[p] on
BacktickMatchesFrom(txt, p) ==
    LET opens == {i \in p..Len(txt) : txt[i] = Fence}
    IN IF opens = {} THEN <<>>
       ELSE LET i == CHOOSE o \in opens : \A o2 \in opens : o <= o2
                closes == {m \in (i + 1)..Len(txt) : txt[m] = Fence}
            IN IF closes = {} THEN <<>>
               ELSE LET m == CHOOSE c \in closes : \A c2 \in closes : c <= c2
                        after_tag == IF i + 1 < m /\ txt[i + 1] = "json" THEN i + 2 ELSE i + 1
                    IN <<Strip(SubSeq(txt, after_tag, m - 1))>> \o BacktickMatchesFrom(txt, m + 1)

\* the replacements of structural_entities
FixStructuralEntities(txt) ==
    [n \in 1..Len(txt) |->
        IF txt[n] = "&quot;" THEN Quote ELSE IF txt[n] = "&apos;" THEN "'" ELSE txt[n]]

RECURSIVE StripTrailingCommasFrom(_, _)
\* re.sub(r",\s*([}\]])", r"\1", text) from txt[i] on
StripTrailingCommasFrom(txt, i) ==
    IF i > Len(txt) THEN <<>>
    ELSE LET j == SkipBlanks(txt, i + 1)
         IN IF txt[i] = "," /\ j <= Len(txt) /\ txt[j] \in {"}", "]"}
            THEN <<txt[j]>> \o StripTrailingCommasFrom(txt, j + 1)
            ELSE <<txt[i]>> \o StripTrailingCommasFrom(txt, i + 1)

\* the tokens made of letters, digits and underscores only
WordTokens ==
    {"categories", "title", "summary", "Tech", "Science", "json", "null", "note", "a", "b", "x"}
    \cup NumberTokens

RECURSIVE SkipWords(_, _)
SkipWords(txt, i) ==
    IF i <= Len(txt) /\ txt[i] \in WordTokens THEN SkipWords(txt, i + 1) ELSE i

RECURSIVE QuoteKeysFrom(_, _)
\* re.sub(r"(\{|\,)\s*([a-zA-Z0-9_]+)\s*:", r'\1"\2":', text) from txt[i] on
QuoteKeysFrom(txt, i) ==
    IF i > Len(txt) THEN <<>>
    ELSE LET j == SkipBlanks(txt, i + 1)
             k == SkipWords(txt, j)
             c == SkipBlanks(txt, k)
         IN IF txt[i] \in {"{", ","} /\ k > j /\ c <= Len(txt) /\ txt[c] = ":"
            THEN <<txt[i], Quote>> \o SubSeq(txt, j, k - 1) \o <<Quote, ":">>
                 \o QuoteKeysFrom(txt, c + 1)
            ELSE <<txt[i]>> \o QuoteKeysFrom(txt, i + 1)

RECURSIVE DoubleQuoteKeysFrom(_, _)
\* re.sub(r"\'([^\']*?)\'(\s*:)", r'"\1"\2', text) from txt[i] on
DoubleQuoteKeysFrom(txt, i) ==
    IF i > Len(txt) THEN <<>>
    ELSE LET closes == {j \in (i + 1)..Len(txt) : txt[j] = "'"}
             j == IF closes = {} THEN 0 ELSE CHOOSE c \in closes : \A d \in closes : c <= d
             c == SkipBlanks(txt, j + 1)
         IN IF txt[i] = "'" /\ j # 0 /\ c <= Len(txt) /\ txt[c] = ":"
            THEN <<Quote>> \o SubSeq(txt, i + 1, j - 1) \o <<Quote>> \o SubSeq(txt, j + 1, c)
                 \o DoubleQuoteKeysFrom(txt, c + 1)
            ELSE <<txt[i]>> \o DoubleQuoteKeysFrom(txt, i + 1)

\* text[text.find("{"):] if "{" in text else text
FromFirstBrace(txt) ==
    LET opens == {i \in 1..Len(txt) : txt[i] = "{"}
    IN IF opens = {} THEN txt
       ELSE SubSeq(txt, CHOOSE i \in opens : \A j \in opens : i <= j, Len(txt))

\* text[: text.rfind("}") + 1] if "}" in text else text
ToLastBrace(txt) ==
    LET closes == {i \in 1..Len(txt) : txt[i] = "}"}
    IN IF closes = {} THEN txt
       ELSE SubSeq(txt, 1, CHOOSE i \in closes : \A j \in closes : i >= j)

TagTokens == {"<b>", "</b>"}

\* re.sub(r"<[^>]+>", "", text)
StripTags(txt) == SelectSeq(txt, LAMBDA tok : tok \notin TagTokens)

\* extract_json_with_common_fixes
ExtractJsonWithCommonFixes(txt, required_fields) ==
    IF txt = <<>> THEN None
    ELSE LET backtick_matches == BacktickMatchesFrom(txt, 1)
             in_block == FirstFound([n \in 1..Len(backtick_matches) |->
                                        LoadValid(backtick_matches[n], required_fields)])
             text_fixed_entities == FixStructuralEntities(txt)
             entities_fixed == LoadValid(text_fixed_entities, required_fields)
             potential_fixes ==
                <<txt,
                  text_fixed_entities,
                  StripTrailingCommasFrom(txt, 1),
                  QuoteKeysFrom(txt, 1),
                  DoubleQuoteKeysFrom(txt, 1),
                  FromFirstBrace(txt),
                  ToLastBrace(txt),
                  StripTags(txt)>>
         IN IF in_block.found THEN in_block
            ELSE IF entities_fixed.found THEN entities_fixed
            ELSE FirstFound([n \in 1..Len(potential_fixes) |->
                                LoadValid(potential_fixes[n], required_fields)])

RECURSIVE BracketMatchingFrom(_, _, _, _, _)
\* the bracket matching loop of extract_json_aggressive from txt[i] on:
\* extracted_jsons at its end
BracketMatchingFrom(txt, i, bracket_count, start_positions, required_fields) ==
    IF i > Len(txt) THEN <<>>
    ELSE IF txt[i] = "{"
    THEN BracketMatchingFrom(txt, i + 1, bracket_count + 1,
            IF bracket_count = 0 THEN Append(start_positions, i) ELSE start_positions,
            required_fields)
    ELSE IF txt[i] = "}"
    THEN IF bracket_count - 1 = 0 /\ start_positions # <<>>
         THEN LET start == start_positions[Len(start_positions)]
                  parsed == LoadValid(SubSeq(txt, start, i), required_fields)
              IN (IF parsed.found THEN <<parsed.val>> ELSE <<>>)
                 \o BracketMatchingFrom(txt, i + 1, 0,
                        SubSeq(start_positions, 1, Len(start_positions) - 1),
                        required_fields)
         ELSE BracketMatchingFrom(txt, i + 1, bracket_count - 1, start_positions,
                                  required_fields)
    ELSE BracketMatchingFrom(txt, i + 1, bracket_count, start_positions, required_fields)

\* max(extracted_jsons, key=lambda x: len(json.dumps(x))): the first of the longest
LongestDump(extracted_jsons) ==
    LET n == CHOOSE a \in 1..Len(extracted_jsons) :
                /\ \A b \in 1..Len(extracted_jsons) :
                      TextLen(JsonDumps(extracted_jsons[b])) <= TextLen(JsonDumps(extracted_jsons[a]))
                /\ \A b \in 1..(a - 1) :
                      TextLen(JsonDumps(extracted_jsons[b])) < TextLen(JsonDumps(extracted_jsons[a]))
    IN extracted_jsons[n]

\* the index of the first brace at or after txt[i], 0 if there is none
NextBrace(txt, i) ==
    LET braces == {j \in i..Len(txt) : txt[j] \in {"{", "}"}}
    IN IF braces = {} THEN 0 ELSE CHOOSE j \in braces : \A k \in braces : j <= k

RECURSIVE FlatObjectsFrom(_, _, _)
\* the repetition (\{[^{}]*\})* tried at txt[i]: [end, group], end the index
\* behind the last repetition and group what the last repetition matched
FlatObjectsFrom(txt, i, group) ==
    LET close == NextBrace(txt, i + 1)
    IN IF i <= Len(txt) /\ txt[i] = "{" /\ close # 0 /\ txt[close] = "}"
       THEN FlatObjectsFrom(txt, close + 1, SubSeq(txt, i, close))
       ELSE [end |-> i, group |-> group]

RECURSIVE FragmentGroupsFrom(_, _)
\* re.findall(r"\{[^{}]*(\{[^{}]*\})*[^{}]*\}", text) from txt[p] on: for each
\* match what its group matched last ("" when the group took no part)
FragmentGroupsFrom(txt, p) ==
    IF p > Len(txt) THEN <<>>
    ELSE IF txt[p] # "{" THEN FragmentGroupsFrom(txt, p + 1)
    ELSE LET inner == NextBrace(txt, p + 1)
         IN IF inner = 0 THEN FragmentGroupsFrom(txt, p + 1)
            ELSE IF txt[inner] = "}"
            THEN <<<<>>>> \o FragmentGroupsFrom(txt, inner + 1)
            ELSE LET flats == FlatObjectsFrom(txt, inner, <<>>)
                     close == NextBrace(txt, flats.end)
                 IN IF flats.end > inner /\ close # 0 /\ txt[close] = "}"
                    THEN <<flats.group>> \o FragmentGroupsFrom(txt, close + 1)
                    ELSE FragmentGroupsFrom(txt, p + 1)

\* text[text.find("{"): text.rfind("}") + 1], both braces being there
BetweenBraces(txt) ==
    LET opens == {i \in 1..Len(txt) : txt[i] = "{"}
        closes == {i \in 1..Len(txt) : txt[i] = "}"}
    IN SubSeq(txt, CHOOSE i \in opens : \A j \in opens : i <= j,
                   CHOOSE i \in closes : \A j \in closes : i >= j)

\* extract_json_aggressive
ExtractJsonAggressive(txt, required_fields) ==
    IF txt = <<>> THEN None
    ELSE LET text_no_html == StripTags(txt)
             extracted_jsons == BracketMatchingFrom(text_no_html, 1, 0, <<>>, required_fields)
             between == LoadValid(BetweenBraces(text_no_html), required_fields)
             potential_jsons == SortedByLen(FragmentGroupsFrom(text_no_html, 1))
         IN IF extracted_jsons # <<>> THEN Some(LongestDump(extracted_jsons))
            ELSE IF \A i \in 1..Len(text_no_html) : text_no_html[i] # "{" THEN None
            ELSE IF \A i \in 1..Len(text_no_html) : text_no_html[i] # "}" THEN None
            ELSE IF between.found THEN between
            ELSE FirstFound([n \in 1..Len(potential_jsons) |->
                                LoadValid(potential_jsons[n], required_fields)])

\* the strategies of extract_json_from_text in the order of the calls
Strategies == <<"direct", "regex", "bracket_balancing", "common_fixes", "aggressive">>

\* what the strategy gives for the stripped text; the direct parse is
\* json.loads with is_valid_json_object
StrategyResult(strategy, txt, required_fields) ==
    CASE strategy = "direct" -> LoadValid(txt, required_fields)
      [] strategy = "regex" -> ExtractJsonUsingRegex(txt, required_fields)
      [] strategy = "bracket_balancing" -> ExtractJsonWithBracketBalancing(txt, required_fields)
      [] strategy = "common_fixes" -> ExtractJsonWithCommonFixes(txt, required_fields)
      [] OTHER -> ExtractJsonAggressive(txt, required_fields)

\* the test extract_json_from_text makes of a strategy's result: the direct
\* parse passes when it gave a valid object, a later strategy when what it
\* gave is true (if json_data)
StrategyAccepted(strategy, json_data) ==
    IF strategy = "direct" THEN json_data.found
    ELSE json_data.found /\ Truthy(json_data.val)

RECURSIVE ExtractFrom(_, _, _)
\* extract_json_from_text from the n-th strategy on: [found, val, strategy]
ExtractFrom(n, txt, required_fields) ==
    IF n > Len(Strategies)
    THEN [found |-> FALSE, val |-> JNull, strategy |-> "none"]
    ELSE LET Taken(json_data) ==
                IF StrategyAccepted(Strategies[n], json_data)
                THEN [found |-> TRUE, val |-> ProcessHtmlEntitiesInJson(json_data.val),
                      strategy |-> Strategies[n]]
                ELSE ExtractFrom(n + 1, txt, required_fields)
         IN Taken(StrategyResult(Strategies[n], txt, required_fields))

\* extract_json_from_text
ExtractJsonFromText(text, required_fields) == ExtractFrom(1, Strip(text), required_fields)

-----------------------------------------------------------------------------
(* json_repair.py: repair_truncated_json                                    *)

\* the least element of a nonempty set of indexes
Least(indexes) == CHOOSE i \in indexes : \A j \in indexes : i <= j

\* the index of the first quote at or after txt[i], 0 if there is none
NextQuote(txt, i) ==
    LET quotes == {j \in i..Len(txt) : txt[j] = Quote}
    IN IF quotes = {} THEN 0 ELSE Least(quotes)

\* a quote at txt[k], at least one other character, a quote and a colon:
\* the index of the colon, 0 if txt[k] does not start such a key
KeyEnd(txt, k) ==
    LET m == NextQuote(txt, k + 1)
    IN IF /\ k <= Len(txt) /\ txt[k] = Quote
          /\ m > k + 1 /\ m + 1 <= Len(txt) /\ txt[m + 1] = ":"
       THEN m + 1 ELSE 0

\* "\s*([}])\s*"([^"]+)": matches from txt[i] on
CommaAfterBraceAt(txt, i) ==
    /\ txt[i] = Quote
    /\ SkipBlanks(txt, i + 1) <= Len(txt)
    /\ txt[SkipBlanks(txt, i + 1)] = "}"
    /\ KeyEnd(txt, SkipBlanks(txt, SkipBlanks(txt, i + 1) + 1)) # 0

RECURSIVE CommaAfterBraceFrom(_, _)
\* re.sub(r'"\s*([}])\s*"([^"]+)":', r'"\1, "\2":', fixed) from txt[i] on
CommaAfterBraceFrom(txt, i) ==
    LET starts == {j \in i..Len(txt) : CommaAfterBraceAt(txt, j)}
    IN IF starts = {} THEN SubSeq(txt, i, Len(txt))
       ELSE LET k == SkipBlanks(txt, SkipBlanks(txt, Least(starts) + 1) + 1)
            IN SubSeq(txt, i, Least(starts) - 1)
               \o <<Quote, "}", ",", Blank>> \o SubSeq(txt, k, KeyEnd(txt, k))
               \o CommaAfterBraceFrom(txt, KeyEnd(txt, k) + 1)

\* "\s+(["]) matches from txt[i] on
CommaBetweenQuotesAt(txt, i) ==
    /\ txt[i] = Quote
    /\ SkipBlanks(txt, i + 1) > i + 1
    /\ SkipBlanks(txt, i + 1) <= Len(txt)
    /\ txt[SkipBlanks(txt, i + 1)] = Quote

RECURSIVE CommaBetweenQuotesFrom(_, _)
\* re.sub(r'"\s+(["])', r'", \1', fixed) from txt[i] on
CommaBetweenQuotesFrom(txt, i) ==
    LET starts == {j \in i..Len(txt) : CommaBetweenQuotesAt(txt, j)}
    IN IF starts = {} THEN SubSeq(txt, i, Len(txt))
       ELSE SubSeq(txt, i, Least(starts) - 1)
            \o <<Quote, ",", Blank, Quote>>
            \o CommaBetweenQuotesFrom(txt, SkipBlanks(txt, Least(starts) + 1) + 1)

\* }\s+{ matches from txt[i] on
CommaBetweenObjectsAt(txt, i) ==
    /\ txt[i] = "}"
    /\ SkipBlanks(txt, i + 1) > i + 1
    /\ SkipBlanks(txt, i + 1) <= Len(txt)
    /\ txt[SkipBlanks(txt, i + 1)] = "{"

RECURSIVE CommaBetweenObjectsFrom(_, _)
\* re.sub(r'}\s+{', r'}, {', fixed) from txt[i] on
CommaBetweenObjectsFrom(txt, i) ==
    LET starts == {j \in i..Len(txt) : CommaBetweenObjectsAt(txt, j)}
    IN IF starts = {} THEN SubSeq(txt, i, Len(txt))
       ELSE SubSeq(txt, i, Least(starts) - 1)
            \o <<"}", ",", Blank, "{">>
            \o CommaBetweenObjectsFrom(txt, SkipBlanks(txt, Least(starts) + 1) + 1)

\* "\s+"([^"]+)": matches from txt[i] on
CommaBeforeKeyAt(txt, i) ==
    /\ txt[i] = Quote
    /\ SkipBlanks(txt, i + 1) > i + 1
    /\ KeyEnd(txt, SkipBlanks(txt, i + 1)) # 0

RECURSIVE CommaBeforeKeyFrom(_, _)
\* re.sub(r'"\s+"([^"]+)":', r'", "\1":', fixed) from txt[i] on
CommaBeforeKeyFrom(txt, i) ==
    LET starts == {j \in i..Len(txt) : CommaBeforeKeyAt(txt, j)}
    IN IF starts = {} THEN SubSeq(txt, i, Len(txt))
       ELSE LET k == SkipBlanks(txt, Least(starts) + 1)
            IN SubSeq(txt, i, Least(starts) - 1)
               \o <<Quote, ",", Blank>> \o SubSeq(txt, k, KeyEnd(txt, k))
               \o CommaBeforeKeyFrom(txt, KeyEnd(txt, k) + 1)

\* ,(\s*[}\]]) matches from txt[i] on
TrailingCommaAt(txt, i) ==
    /\ txt[i] = ","
    /\ SkipBlanks(txt, i + 1) <= Len(txt)
    /\ txt[SkipBlanks(txt, i + 1)] \in {"}", "]"}

RECURSIVE DropTrailingCommasFrom(_, _)
\* re.sub(r',(\s*[}\]])', r'\1', fixed) from txt[i] on
DropTrailingCommasFrom(txt, i) ==
    LET starts == {j \in i..Len(txt) : TrailingCommaAt(txt, j)}
    IN IF starts = {} THEN SubSeq(txt, i, Len(txt))
       ELSE SubSeq(txt, i, Least(starts) - 1)
            \o SubSeq(txt, Least(starts) + 1, SkipBlanks(txt, Least(starts) + 1))
            \o DropTrailingCommasFrom(txt, SkipBlanks(txt, Least(starts) + 1) + 1)

\* _fix_comma_delimiters
FixCommaDelimiters(json_str) ==
    DropTrailingCommasFrom(
        CommaBeforeKeyFrom(
            CommaBetweenObjectsFrom(
                CommaBetweenQuotesFrom(
                    CommaAfterBraceFrom(json_str, 1), 1), 1), 1), 1)

\* text.count(tok)
Count(txt, tok) == Cardinality({i \in 1..Len(txt) : txt[i] = tok})

\* n times the token
Repeat(tok, n) == [i \in 1..n |-> tok]

\* the number of characters before txt[i]
Offset(txt, i) == TextLen(SubSeq(txt, 1, i - 1))

\* _handle_severe_truncation: the value, None (null) when the salvage fails
HandleSevereTruncation(json_str, truncation_point) ==
    LET ends == {i \in 1..(Len(json_str) - 1) :
                    /\ json_str[i] = "}" /\ json_str[i + 1] = ","
                    /\ Offset(json_str, i) + 2 <= truncation_point}
    IN IF ends = {} THEN JNull
       ELSE LET safe_point == CHOOSE i \in ends : \A j \in ends : i >= j
                truncated == SubSeq(json_str, 1, safe_point)
                open_braces == Count(truncated, "{") - Count(truncated, "}")
                open_brackets == Count(truncated, "[") - Count(truncated, "]")
                closed == truncated
                          \o (IF open_brackets > 0 THEN Repeat("]", open_brackets) ELSE <<>>)
                          \o (IF open_braces > 0 THEN Repeat("}", open_braces) ELSE <<>>)
                parsed == JsonLoads(closed)
            IN IF parsed.ok THEN parsed.val ELSE JNull

\* the quotes that the first pass of repair_truncated_json takes to open or
\* close a string: those not preceded by a backslash
TogglingQuotes(txt) ==
    {i \in 1..Len(txt) : txt[i] = Quote /\ (i = 1 \/ txt[i - 1] # Backslash)}

\* in_string after the first pass has read txt[i]
InStringAt(txt, i) == Cardinality({q \in TogglingQuotes(txt) : q <= i}) % 2 = 1

\* the brackets and braces that the first pass reads outside strings
Structural(txt) ==
    {i \in 1..Len(txt) : txt[i] \in {"{", "[", "}", "]"} /\ ~InStringAt(txt, i)}

RECURSIVE StackFrom(_, _, _)
\* the stack of the first pass once the brackets at the given indexes are read
StackFrom(txt, indexes, stack) ==
    IF indexes = {} THEN stack
    ELSE LET i == Least(indexes)
             top == IF stack = <<>> THEN "" ELSE stack[Len(stack)]
         IN StackFrom(txt, indexes \ {i},
                      IF txt[i] \in {"{", "["} THEN Append(stack, txt[i])
                      ELSE IF (txt[i] = "}" /\ top = "{") \/ (txt[i] = "]" /\ top = "[")
                      THEN SubSeq(stack, 1, Len(stack) - 1)
                      ELSE stack)

\* the first pass of repair_truncated_json: [in_string, stack]
ScanStructure(txt) ==
    [in_string |-> InStringAt(txt, Len(txt)), stack |-> StackFrom(txt, Structural(txt), <<>>)]

\* the closing tokens of the open structures, the last opened first
Closers(stack) ==
    [n \in 1..Len(stack) |-> IF stack[Len(stack) + 1 - n] = "{" THEN "}" ELSE "]"]

RECURSIVE RStrip(_, _)
\* text.rstrip(chars)
RStrip(txt, chars) ==
    IF txt # <<>> /\ txt[Len(txt)] \in chars
    THEN RStrip(SubSeq(txt, 1, Len(txt) - 1), chars) ELSE txt

\* text.split('"')[-1]
AfterLastQuote(txt) ==
    LET quotes == {i \in 1..Len(txt) : txt[i] = Quote}
    IN IF quotes = {} THEN txt
       ELSE SubSeq(txt, (CHOOSE i \in quotes : \A j \in quotes : i >= j) + 1, Len(txt))

\* text[-1]: the last character of the last token
LastChar(txt) ==
    LET tok == txt[Len(txt)]
    IN CASE tok = "categories" -> "s"
         [] tok \in {"title", "Science", "note"} -> "e"
         [] tok = "article_0" -> "0"
         [] tok = "article_1" -> "1"
         [] tok = "id" -> "d"
         [] tok = "link" -> "k"
         [] tok = Padding -> "p"
         [] tok = "summary" -> "y"
         [] tok = "pubdate" -> "e"
         [] tok = "Tech" -> "h"
         [] tok = "json" -> "n"
         [] tok = "null" -> "l"
         [] tok \in {"&amp;", "&quot;", "&apos;", "&lt;"} -> ";"
         [] tok \in TagTokens -> ">"
         [] tok = Fence -> "backtick"
         [] OTHER -> tok

\* the special case of repair_truncated_json for a text cut in a property
NullForLastProperty(repaired) ==
    IF /\ Count(repaired, Quote) > 0
       /\ \E n \in 1..Len(AfterLastQuote(RStrip(repaired, {"{", "}", "[", "]"}))) :
             AfterLastQuote(RStrip(repaired, {"{", "}", "[", "]"}))[n] \notin {Blank, ","}
       /\ (Count(repaired, Quote) + 1) % 2 = 0
       /\ Count(AfterLastQuote(repaired), ":") = 0
    THEN RStrip(repaired, {"}", "]"}) \o <<":", "null", LastChar(repaired)>>
    ELSE repaired

RECURSIVE PartialEnd(_, _)
\* (?:[^{}]|(?:\{[^{}]*\}))* from txt[i] on: the index behind what it matches
PartialEnd(txt, i) ==
    LET brace == NextBrace(txt, i)
        after == IF brace = 0 THEN 0 ELSE NextBrace(txt, brace + 1)
    IN IF brace = 0 THEN Len(txt) + 1
       ELSE IF txt[brace] = "{" /\ after # 0 /\ txt[after] = "}"
       THEN PartialEnd(txt, after + 1)
       ELSE brace

\* the more aggressive repair of repair_truncated_json
AggressiveRepair(json_str) ==
    LET opens == {i \in 1..Len(json_str) : json_str[i] = "{"}
        first == IF opens = {} THEN 0 ELSE Least(opens)
    IN IF first = 0 THEN JNull
       ELSE LET partial == SubSeq(json_str, first, PartialEnd(json_str, first + 1) - 1)
                missing == Count(partial, "{") - Count(partial, "}")
                parsed == JsonLoads(partial \o (IF missing > 0 THEN Repeat("}", missing) ELSE <<>>))
            IN IF parsed.ok THEN parsed.val ELSE JNull

\* "char 14" in str(e): the decimal digits of the position begin with 14
CharFourteen(n) ==
    \/ n = 14
    \/ n \in 140..149
    \/ n \in 1400..1499
    \/ n \in 14000..14999

\* the general repair of repair_truncated_json: the text with the open string
\* and the open structures closed
GeneralRepair(json_str) ==
    LET scan == ScanStructure(json_str)
    IN NullForLastProperty(json_str
                           \o (IF scan.in_string THEN <<Quote>> ELSE <<>>)
                           \o Closers(scan.stack))

\* what a call gives: the value (None is null) and the return statement taken
Repaired(value, by) == [val |-> value, path |-> by]

\* repair_truncated_json from the general repair on
RepairGenerally(json_str) ==
    LET parsed == JsonLoads(GeneralRepair(json_str))
    IN IF parsed.ok THEN Repaired(parsed.val, "general")
       ELSE IF AggressiveRepair(json_str) # JNull
       THEN Repaired(AggressiveRepair(json_str), "aggressive")
       ELSE Repaired(JNull, "failed")

\* repair_truncated_json from the comma delimiter errors on
RepairCommas(json_str, e) ==
    LET fixed_str == FixCommaDelimiters(json_str)
    IN IF e.err = "Expecting , delimiter" /\ fixed_str # json_str /\ JsonLoads(fixed_str).ok
       THEN Repaired(JsonLoads(fixed_str).val, "comma_fix")
       ELSE RepairGenerally(json_str)

\* repair_truncated_json with the comma delimiters fixed before the first parse
RepairTruncatedJsonFixingFirst(json_str) ==
    IF JsonLoads(FixCommaDelimiters(json_str)).ok
    THEN Repaired(JsonLoads(FixCommaDelimiters(json_str)).val, "direct")
    ELSE RepairGenerally(json_str)

\* repair_truncated_json
RepairTruncatedJson(json_str) ==
    IF \A i \in 1..Len(json_str) : json_str[i] = Blank THEN Repaired(JNull, "blank")
    ELSE LET e == JsonLoads(json_str)
         IN IF e.ok THEN Repaired(e.val, "direct")
            ELSE IF /\ CharFourteen(Offset(json_str, e.pos))
                    /\ TextLen(json_str) > LongText
                    /\ HandleSevereTruncation(json_str, TruncationPoint) # JNull
            THEN Repaired(HandleSevereTruncation(json_str, TruncationPoint), "severe_truncation")
            ELSE RepairCommas(json_str, e)

-----------------------------------------------------------------------------
(* Calls of single functions *)

\* no run of process_articles_with_claude takes place
NoRun ==
    /\ environ = [CLAUDE_MAX_TOKENS |-> DefaultMaxTokens,
                  CLAUDE_MAX_REQUESTS |-> DefaultMaxRequests,
                  CLAUDE_BATCH_SIZE |-> DefaultBatchSize,
                  CLAUDE_ENABLED |-> FALSE,
                  ANTHROPIC_API_KEY |-> TRUE,
                  ANTHROPIC_API_KEY_PARAMETER |-> FALSE,
                  ssm_parameter_found |-> FALSE]
    /\ rate_limiter = NewRateLimiter(environ)
    /\ pc = "idle"
    /\ articles = <<>>
    /\ batches = <<>>
    /\ batch_idx = 0
    /\ all_categories = <<>>
    /\ combined_metadata = NoMetadata
    /\ result = Pending
    /\ last_query = NoQuery
    /\ api_calls = 0
    /\ usage_log = [calls |-> 0, sum |-> 0, run_calls |-> 0, reported |-> 0, failed |-> 0]
    /\ last_batch = NoBatch

(* split_articles_into_batches *)

\* the arguments: a list of 0..MaxArticles articles and a max_batch_size >= 1
SplitCalls ==
    { [NoSplitCall EXCEPT !.articles = MakeArticles(n), !.max_batch_size = b] :
        n \in 0..MaxArticles, b \in (1..MaxBatchSize) \cup {DefaultBatchSize} }

InitSplit ==
    /\ NoRun
    /\ split_call \in SplitCalls
    /\ extract_call = NoExtractCall
    /\ repair_call = NoRepairCall
    /\ assemble_call = NoAssembleCall
    /\ enrich_call = NoEnrichCall
    /\ group_call = NoGroupCall

\* split_articles_into_batches(articles, max_batch_size) returns
CallSplitArticlesIntoBatches ==
    /\ ~split_call.returned
    /\ split_call' =
         [split_call EXCEPT
            !.returned = TRUE,
            !.batches = SplitArticlesIntoBatches(split_call.articles,
                                                 split_call.max_batch_size)]
    /\ UNCHANGED <<run_vars, extract_call, repair_call, assemble_call,
                   enrich_call, group_call>>

NextSplit == CallSplitArticlesIntoBatches

SpecSplit == InitSplit /\ [][NextSplit]_vars

(* extract_json_from_text *)

\* "key": value
KeyValue(key, value) == <<Quote, key, Quote, ":", Blank>> \o value

\* the objects a response may hold
TextObjects ==
    { \* {"categories": 1}
      <<"{">> \o KeyValue("categories", <<"1">>) \o <<"}">>,
      \* {"categories": 1, "note": 5}
      <<"{">> \o KeyValue("categories", <<"1">>) \o <<",", Blank>> \o KeyValue("note", <<"5">>) \o <<"}">>,
      \* {"note": 1}
      <<"{">> \o KeyValue("note", <<"1">>) \o <<"}">>,
      \* {}
      <<"{", "}">>,
      \* {"note": {"categories": 1}}
      <<"{">> \o KeyValue("note", <<"{">> \o KeyValue("categories", <<"1">>) \o <<"}">>) \o <<"}">>,
      \* {x {"categories": 5, "note": 1}}
      <<"{", "x", Blank, "{">> \o KeyValue("categories", <<"5">>) \o <<",", Blank>>
          \o KeyValue("note", <<"1">>) \o <<"}", "}">>,
      \* {"categories": 1,}
      <<"{">> \o KeyValue("categories", <<"1">>) \o <<",", "}">>,
      \* {categories: 1}
      <<"{", "categories", ":", Blank, "1", "}">>,
      \* {'categories': 1}
      <<"{", "'", "categories", "'", ":", Blank, "1", "}">>,
      \* {&quot;categories&quot;: 1}
      <<"{", "&quot;", "categories", "&quot;", ":", Blank, "1", "}">>,
      \* {"categories": <b>1</b>}
      <<"{">> \o KeyValue("categories", <<"<b>", "1", "</b>">>) \o <<"}">>,
      \* {"categories": 1, "title": "a&amp;b"}
      <<"{">> \o KeyValue("categories", <<"1">>) \o <<",", Blank>>
          \o KeyValue("title", <<Quote, "a", "&amp;", "b", Quote>>) \o <<"}">>,
      \* {"categories": 1    (cut short)
      <<"{">> \o KeyValue("categories", <<"1">>),
      \* [1]
      <<"[", "1", "]">> }

\* the code blocks a response may hold
TextBlocks ==
    { <<Fence, "json", Blank, "{">> \o KeyValue("categories", <<"5">>) \o <<"}", Blank, Fence>>,
      <<Fence, "{">> \o KeyValue("note", <<"5">>) \o <<"}", Fence>>,
      <<Fence, Blank, "x", Blank, Fence>> }

TextParts == TextObjects \cup TextBlocks

\* what stands before the first part
TextLeads == {<<>>, <<"x", Blank>>, <<Blank, "}", Blank>>}

RECURSIVE JoinParts(_)
\* the parts with " x " between them
JoinParts(parts) ==
    IF Len(parts) = 1 THEN parts[1]
    ELSE parts[1] \o <<Blank, "x", Blank>> \o JoinParts(Tail(parts))

RECURSIVE PartLists(_)
\* the lists of 1..n parts
PartLists(n) ==
    IF n = 1 THEN {<<part>> : part \in TextParts}
    ELSE PartLists(n - 1)
         \cup {Append(parts, part) : parts \in {l \in PartLists(n - 1) : Len(l) = n - 1},
                                     part \in TextParts}

RequiredFieldsChoices == {<<>>, <<<<"categories">>>>}

\* the calls on a response text
ExtractTextCalls ==
    { [NoExtractCall EXCEPT !.text = lead \o JoinParts(parts), !.required_fields = fields] :
        lead \in TextLeads, parts \in PartLists(MaxParts), fields \in RequiredFieldsChoices }

\* an item of a category, as the service is asked to give it
PayloadItem(title) ==
    JObj(<<JMember(<<"id">>, JStr(<<"article_0">>)),
           JMember(<<"title">>, JStr(title)),
           JMember(<<"link">>, JStr(<<"a", "&amp;", "b">>)),
           JMember(<<"summary">>, JStr(<<"a">>))>>)

TitleChoices ==
    {<<"a">>, <<"a", Quote, "b">>, <<"{", "a">>, <<"a", "&amp;", "b">>, <<"a", "&", "b">>, <<>>}

\* well-formed payloads: a mapping of category names to lists of items
WellFormedPayloads ==
    {JObj(<<>>)}
    \cup {JObj(<<JMember(<<"Tech">>, JArr(<<PayloadItem(t)>>))>>) : t \in TitleChoices}
    \cup {JObj(<<JMember(<<"Tech">>, JArr(<<PayloadItem(t1), PayloadItem(t2)>>)),
                 JMember(<<"Science">>, JArr(<<>>))>>) : t1 \in TitleChoices, t2 \in TitleChoices}
    \cup {JObj(<<JMember(<<"categories">>,
                    JObj(<<JMember(<<"Tech">>, JArr(<<PayloadItem(t1)>>)),
                           JMember(<<"Science">>, JArr(<<PayloadItem(t2)>>))>>))>>) :
            t1 \in TitleChoices, t2 \in TitleChoices}

\* the calls on the serialization of a well-formed payload
ExtractDumpCalls ==
    { [NoExtractCall EXCEPT !.text = JsonDumps(x), !.dumped = x, !.required_fields = fields] :
        x \in WellFormedPayloads, fields \in {<<>>} }

InitExtract ==
    /\ NoRun
    /\ split_call = NoSplitCall
    /\ extract_call \in ExtractTextCalls \cup ExtractDumpCalls
    /\ repair_call = NoRepairCall
    /\ assemble_call = NoAssembleCall
    /\ enrich_call = NoEnrichCall
    /\ group_call = NoGroupCall

\* extract_json_from_text(text, required_fields) returns
CallExtractJsonFromText ==
    /\ ~extract_call.returned
    /\ extract_call' =
         [extract_call EXCEPT
            !.returned = TRUE,
            !.result = ExtractJsonFromText(extract_call.text, extract_call.required_fields)]
    /\ UNCHANGED <<run_vars, split_call, repair_call, assemble_call,
                   enrich_call, group_call>>

NextExtract == CallExtractJsonFromText

SpecExtract == InitExtract /\ [][NextExtract]_vars

(* repair_truncated_json *)

\* an item of a category in a response
RepairItem(n, title, summary) ==
    JObj(<<JMember(<<"id">>, JStr(<<IF n = 1 THEN "article_0" ELSE "article_1">>)),
           JMember(<<"title">>, JStr(title)),
           JMember(<<"link">>, JStr(<<"l">>)),
           JMember(<<"summary">>, JStr(summary)),
           JMember(<<"pubdate">>, JStr(<<"p">>))>>)

RepairTitles == {<<"a">>, <<Blank>>, <<"a", Quote, "b">>, <<"{", "a">>}

\* the values a response may be the text of
RepairDocuments ==
    { JObj(<<JMember(<<"categories">>,
               JObj(<<JMember(<<"Tech">>,
                        JArr([i \in 1..n |-> RepairItem(i, title, <<"x">>)]))>>))>>) :
        n \in 0..MaxRepairItems, title \in RepairTitles }
    \cup { JObj(<<JMember(<<"categories">>,
                    JObj(<<JMember(<<"Tech">>,
                             JArr([i \in 1..n |-> RepairItem(i, <<"a">>, <<Padding>>)]))>>))>>) :
             n \in 2..MaxRepairItems }
    \cup { JNull, JNum("1"), JStr(<<"a", Blank, "b">>), JArr(<<JNum("1"), JNum("5")>>),
           JObj(<<JMember(<<"note">>, JNull)>>) }

\* the text without its token i
Without(txt, i) == SubSeq(txt, 1, i - 1) \o SubSeq(txt, i + 1, Len(txt))

\* the texts: whole, cut short at any point, with one comma left out, with a
\* comma too many before the last closing token, with a blank in front, and
\* with a word behind
RepairTexts ==
    UNION { LET txt == JsonDumps(doc)
            IN {SubSeq(txt, 1, k) : k \in 0..Len(txt)}
               \cup {Without(txt, i) : i \in {j \in 1..Len(txt) : txt[j] = ","}}
               \cup {SubSeq(txt, 1, Len(txt) - 1) \o <<",", txt[Len(txt)]>>,
                     <<Blank>> \o txt, <<Blank, Blank>>, txt \o <<Blank, "x">>}
          : doc \in RepairDocuments }

RepairCalls == { [NoRepairCall EXCEPT !.json_str = txt] : txt \in RepairTexts }

InitRepair ==
    /\ NoRun
    /\ split_call = NoSplitCall
    /\ extract_call = NoExtractCall
    /\ repair_call \in RepairCalls
    /\ assemble_call = NoAssembleCall
    /\ enrich_call = NoEnrichCall
    /\ group_call = NoGroupCall

\* repair_truncated_json(json_str) returns
CallRepairTruncatedJson ==
    /\ ~repair_call.returned
    /\ repair_call' =
         [repair_call EXCEPT
            !.returned = TRUE,
            !.result = RepairTruncatedJson(repair_call.json_str)]
    /\ UNCHANGED <<run_vars, split_call, extract_call, assemble_call,
                   enrich_call, group_call>>

NextRepair == CallRepairTruncatedJson

SpecRepair == InitRepair /\ [][NextRepair]_vars

(* _create_categorized_articles *)

\* an item whose identifier names an ordinal behind the last article
OutOfRangeItem(batch) ==
    [id |-> [wellformed |-> TRUE, ordinal |-> Len(batch)], title |-> Len(batch)]

DictArticlesCat(name, items) == [name |-> name, kind |-> "dict_articles", items |-> items]

\* the items a payload may list for a batch
ItemChoices(batch) ==
    {Item(batch, i) : i \in 0..(Len(batch) - 1)}
    \cup {MalformedItem(batch, 0), OutOfRangeItem(batch)}

RECURSIVE ItemLists(_, _)
\* the lists of 0..n items
ItemLists(batch, n) ==
    IF n = 0 THEN {<<>>}
    ELSE ItemLists(batch, n - 1)
         \cup {Append(items, item) : items \in {l \in ItemLists(batch, n - 1) : Len(l) = n - 1},
                                     item \in ItemChoices(batch)}

\* the first category of a payload
FirstEntries(batch) ==
    {ListCat("Technology", items) : items \in ItemLists(batch, MaxItems)}
    \cup {ScalarCat("Technology"), DictArticlesCat("Technology", FullItems(batch))}

\* the categories that may stand next to it
SecondEntries(batch) ==
    {ListCat("Science", FullItems(batch)), ListCat("Science", <<MalformedItem(batch, 0)>>),
     ScalarCat("Science"), ListCat("verification", FullItems(batch)),
     ListCat("Technology", <<Item(batch, 0)>>)}

ThirdEntries(batch) == {ListCat("World", <<Item(batch, 0)>>), ScalarCat("World")}

\* the lists of categories of a payload
CategoryLists(batch) ==
    {<<>>}
    \cup {<<e1>> : e1 \in FirstEntries(batch) \cup SecondEntries(batch)}
    \cup {<<e1, e2>> : e1 \in FirstEntries(batch), e2 \in SecondEntries(batch)}
    \cup {<<e2, e1>> : e1 \in FirstEntries(batch), e2 \in SecondEntries(batch)}
    \cup {<<e1, e2, e3>> : e1 \in FirstEntries(batch), e2 \in SecondEntries(batch),
                           e3 \in ThirdEntries(batch)}

\* the keys of a JSON object differ; the names of a list of objects need not
DistinctNames(cats) ==
    \A i \in 1..Len(cats) : \A j \in 1..Len(cats) : cats[i].name = cats[j].name => i = j

\* the parsed payloads handed to the assembler
AssemblePayloads(batch) ==
    { [top |-> top, cats |-> cats] :
        top \in {"dict_categories", "toplevel"},
        cats \in {l \in CategoryLists(batch) : DistinctNames(l)} }
    \cup { [top |-> "list_categories", cats |-> cats] : cats \in CategoryLists(batch) }
    \cup { [top |-> "scalar_categories", cats |-> <<>>] }

InitAssemble ==
    /\ NoRun
    /\ split_call = NoSplitCall
    /\ extract_call = NoExtractCall
    /\ repair_call = NoRepairCall
    /\ enrich_call = NoEnrichCall
    /\ group_call = NoGroupCall
    /\ \E n \in 1..MaxAssembleArticles :
          assemble_call \in { [NoAssembleCall EXCEPT !.data = data, !.articles = MakeArticles(n)] :
                                data \in AssemblePayloads(MakeArticles(n)) }

\* _create_categorized_articles(categorized_data, articles, usage_stats) returns
CallCreateCategorizedArticles ==
    /\ ~assemble_call.returned
    /\ assemble_call' =
         [assemble_call EXCEPT
            !.returned = TRUE,
            !.result = CreateCategorizedArticles(assemble_call.data, assemble_call.articles, 0)]
    /\ UNCHANGED <<run_vars, split_call, extract_call, repair_call,
                   enrich_call, group_call>>

NextAssemble == CallCreateCategorizedArticles

SpecAssemble == InitAssemble /\ [][NextAssemble]_vars

(* submit_email_batch and retrieve_and_send_email *)

\* create_categorization_prompt: articles_json, one entry per article of the
\* list it is given, "article_<idx>" being the position in that list
CreateCategorizationPrompt(arts) ==
    [i \in 1..Len(arts) |->
        [id |-> [wellformed |-> TRUE, ordinal |-> i - 1], title |-> arts[i].gid]]

\* enrich_batch_results_with_metadata, one article of a category
EnrichArticle(item, original_articles, category) ==
    LET resolved == item.id.wellformed /\ item.id.ordinal < Len(original_articles)
    IN [title |-> item.title,
        category |-> category,
        original_description |->
            IF resolved THEN original_articles[item.id.ordinal + 1].description ELSE <<>>,
        comments |->
            IF resolved THEN original_articles[item.id.ordinal + 1].comments ELSE <<>>]

\* enrich_batch_results_with_metadata
EnrichBatchResultsWithMetadata(categorized_data, original_articles) ==
    [n \in 1..Len(categorized_data) |->
        [name |-> categorized_data[n].name,
         articles |->
            [i \in 1..Len(categorized_data[n].items) |->
                EnrichArticle(categorized_data[n].items[i], original_articles,
                              categorized_data[n].name)]]]

\* the "categories" a service that copies identifiers and titles from the
\* prompt may answer with
BatchAnswers(prompt) ==
    { <<ListCat("Technology", prompt)>>,
      <<ListCat("Science", SelectSeq(prompt, LAMBDA it : it.id.ordinal % 2 = 1)),
        ListCat("Technology", SelectSeq(prompt, LAMBDA it : it.id.ordinal % 2 = 0))>> }

\* the articles found by submit_email_batch and its CLAUDE_BATCH_SIZE
EnrichCalls ==
    { [NoEnrichCall EXCEPT !.articles = MakeArticles(n), !.max_batch_size = b] :
        n \in 0..MaxEnrichArticles, b \in {2, 3, DefaultBatchSize} }

InitEnrich ==
    /\ NoRun
    /\ split_call = NoSplitCall
    /\ extract_call = NoExtractCall
    /\ repair_call = NoRepairCall
    /\ assemble_call = NoAssembleCall
    /\ enrich_call \in EnrichCalls
    /\ group_call = NoGroupCall

\* submit_email_batch.lambda_handler: one request per batch, its prompt made
\* by create_categorization_prompt(batch)
SubmitEmailBatch ==
    /\ ~enrich_call.submitted
    /\ enrich_call' =
         [enrich_call EXCEPT
            !.submitted = TRUE,
            !.prompts =
                LET article_batches ==
                        SplitArticlesIntoBatches(enrich_call.articles, enrich_call.max_batch_size)
                IN [k \in 1..Len(article_batches) |->
                        CreateCategorizationPrompt(article_batches[k])]]
    /\ UNCHANGED <<run_vars, split_call, extract_call, repair_call, assemble_call, group_call>>

\* retrieve_and_send_email.lambda_handler, one succeeded result of the loop:
\* its categories are enriched against the original articles and merged
RetrieveBatchResult ==
    /\ enrich_call.submitted
    /\ enrich_call.retrieved < Len(enrich_call.prompts)
    /\ \E categories \in BatchAnswers(enrich_call.prompts[enrich_call.retrieved + 1]) :
          enrich_call' =
             [enrich_call EXCEPT
                !.retrieved = @ + 1,
                !.all_categories =
                    MergeCategories(@, EnrichBatchResultsWithMetadata(categories,
                                                                      enrich_call.articles))]
    /\ UNCHANGED <<run_vars, split_call, extract_call, repair_call, assemble_call, group_call>>

NextEnrich == SubmitEmailBatch \/ RetrieveBatchResult

SpecEnrich == InitEnrich /\ [][NextEnrich]_vars

(* group_articles_by_priority *)

\* PRIORITY_CATEGORIES
PriorityCategories ==
    <<"Technology", "AI/ML", "Cybersecurity", "Programming", "Science", "Business",
      "Politics", "Health", "Environment", "Entertainment", "Gaming", "Cycling",
      "Media/TV/Film", "Other">>

InPriorityList(name) == \E n \in 1..Len(PriorityCategories) : PriorityCategories[n] = name

GroupArticlesByPriorityOnly(categories) ==
    LET listed == SelectSeq(PriorityCategories, LAMBDA category : DictHas(categories, category))
    IN [n \in 1..Len(listed) |-> [name |-> listed[n], articles |-> DictGet(categories, listed[n])]]

\* group_articles_by_priority: the list of (category, articles) pairs
GroupArticlesByPriority(categories) ==
    LET listed == SelectSeq(PriorityCategories, LAMBDA category : DictHas(categories, category))
    IN [n \in 1..Len(listed) |-> [name |-> listed[n], articles |-> DictGet(categories, listed[n])]]
       \o SelectSeq(categories, LAMBDA entry : ~InPriorityList(entry.name))

\* the names a result may hold: some of the priority list, some not
GroupNames == {"Science", "Technology", "Other", "Uncategorized", "World"}

\* the records of a category of a result
GroupRecords(name, n) ==
    [i \in 1..n |-> [title |-> i - 1, category |-> name,
                     original_description |-> <<i - 1>>, comments |-> <<>>]]

RECURSIVE GroupDicts(_)
\* the categories mappings of at most n categories: the names differ, every
\* list holds one or two records
GroupDicts(n) ==
    IF n = 0 THEN {<<>>}
    ELSE GroupDicts(n - 1)
         \cup {Append(d, [name |-> name, articles |-> GroupRecords(name, k)]) :
                 d \in {e \in GroupDicts(n - 1) : Len(e) = n - 1},
                 name \in GroupNames, k \in 1..2}

GroupCalls ==
    { [NoGroupCall EXCEPT !.categories = d] :
        d \in {e \in GroupDicts(MaxGroupCategories) : DistinctNames(e)} }

InitGroup ==
    /\ NoRun
    /\ split_call = NoSplitCall
    /\ extract_call = NoExtractCall
    /\ repair_call = NoRepairCall
    /\ assemble_call = NoAssembleCall
    /\ enrich_call = NoEnrichCall
    /\ group_call \in GroupCalls

\* group_articles_by_priority(categorized_articles) returns
CallGroupArticlesByPriority ==
    /\ ~group_call.returned
    /\ group_call' =
         [group_call EXCEPT
            !.returned = TRUE,
            !.ordered = GroupArticlesByPriority(group_call.categories)]
    /\ UNCHANGED <<run_vars, split_call, extract_call, repair_call, assemble_call, enrich_call>>

NextGroup == CallGroupArticlesByPriority

SpecGroup == InitGroup /\ [][NextGroup]_vars

-----------------------------------------------------------------------------
(* Properties *)

IsPrefix(s, t) == Len(s) <= Len(t) /\ SubSeq(t, 1, Len(s)) = s

RECURSIVE TotalRecords(_)
\* sum(len(v) for v in d.values())
TotalRecords(d) ==
    IF d = <<>> THEN 0 ELSE Len(Head(d).articles) + TotalRecords(Tail(d))

\* number of elements of sequence s that satisfy Test
CountIn(s, Test(_)) == Cardinality({i \in 1..Len(s) : Test(s[i])})

RECURSIVE AllRecords(_)
\* the records of every category, in dict order
AllRecords(d) ==
    IF d = <<>> THEN <<>> ELSE Head(d).articles \o AllRecords(Tail(d))

\* the batch the next step of the run hands to _process_with_claude_client
CurrentBatch == IF pc = "single" THEN articles ELSE batches[batch_idx + 1]

AtBatch == pc = "single" \/ (pc = "batches" /\ batch_idx < Len(batches))

KeyUnresolvable ==
    /\ ~environ.ANTHROPIC_API_KEY
    /\ ~environ.ANTHROPIC_API_KEY_PARAMETER \/ ~environ.ssm_parameter_found

PreAssemblyFailures == {"budget_denied", "api_error", "empty_text", "unparseable"}

\* C1: the result of process_articles_with_claude holds exactly one record per
\* input article in total, whatever the per-batch outcomes.  Stated on the runs
\* in which the input is split into batches and every planned batch has been
\* handled, where the code itself supplies fallback records.
C1_Completeness ==
    (pc = "done" /\ batches # <<>> /\ batch_idx = Len(batches)) =>
        /\ result.kind = "result"
        /\ TotalRecords(result.categories) = Len(articles)

\* C2: in a multi-batch run, a batch for which _process_with_claude_client
\* returns None appends one fallback record per article of the batch, in batch
\* order, to "Uncategorized", adds one to batches_failed and leaves every other
\* category as it was.
C2_FailedBatchFallback ==
    [][ (pc = "batches" /\ batch_idx < Len(batches) /\ last_batch'.ret = "None") =>
          LET batch == batches[batch_idx + 1]
              old == IF DictHas(all_categories, "Uncategorized")
                     THEN DictGet(all_categories, "Uncategorized") ELSE <<>>
              new == DictGet(all_categories', "Uncategorized")
          IN /\ DictHas(all_categories', "Uncategorized")
             /\ Len(new) = Len(old) + Len(batch)
             /\ IsPrefix(old, new)
             /\ \A i \in 1..Len(batch) :
                   /\ new[Len(old) + i].title = batch[i].gid
                   /\ new[Len(old) + i].category = "Uncategorized"
             /\ combined_metadata'.batches_failed = combined_metadata.batches_failed + 1
             /\ combined_metadata'.batches_processed = combined_metadata.batches_processed
             /\ \A j \in 1..Len(all_categories') :
                   all_categories'[j].name # "Uncategorized" =>
                      (j <= Len(all_categories) /\ all_categories'[j] = all_categories[j])
      ]_vars

\* C2 witness: a batch failed after an earlier batch had been merged into
\* another category.
C2_Witness ==
    /\ pc = "batches"
    /\ last_batch.ret = "None"
    /\ combined_metadata.batches_failed = 1
    /\ combined_metadata.batches_processed >= 1
    /\ DictHas(all_categories, "Technology")
    /\ DictHas(all_categories, "Uncategorized")

\* C3: when the call succeeded and the response was parsed, every article of
\* the batch is represented by exactly one record of the batch's result.
C3_OneRecordPerArticle ==
    (last_batch.outcome = "parsed" /\ last_batch.ret = "result") =>
        \A i \in 1..Len(last_batch.arts) :
            CountIn(AllRecords(last_batch.categories),
                    LAMBDA rec : rec.title = last_batch.arts[i].gid) = 1

C6_RaisesConfigurationError ==
    (pc = "done" /\ articles # <<>> /\ environ.CLAUDE_ENABLED /\ KeyUnresolvable) =>
        result.kind = "raised"

\* C6 as amended: with no API key resolvable, process_articles_with_claude
\* catches the ValueError of get_anthropic_api_key and returns None, without
\* any external call.
C6_ReturnsNoneWithoutKey ==
    (pc = "done" /\ articles # <<>> /\ environ.CLAUDE_ENABLED /\ KeyUnresolvable) =>
        /\ result.kind = "None"
        /\ api_calls = 0

\* C6 witness: a multi-batch run ended at its first batch for want of a key.
C6_Witness ==
    /\ pc = "done"
    /\ Len(articles) > SingleBatchLimit
    /\ KeyUnresolvable
    /\ environ.ANTHROPIC_API_KEY_PARAMETER
    /\ last_batch.outcome = "config_error"
    /\ result.kind = "None"

\* C7: record_usage is called once for each call of client.messages.create,
\* whatever the call's outcome, and never without one.
C7_RecordPerAttemptedCall == usage_log.run_calls = api_calls

\* C8: when can_make_request is false for the batch's estimated tokens, the
\* step makes no external call, the batch fails (None) and the limiter's
\* counters are left as they were.
C8_BudgetDenialMakesNoCall ==
    [][ (/\ AtBatch
         /\ ~KeyUnresolvable
         /\ ~(/\ rate_limiter.current_requests < rate_limiter.max_requests
              /\ rate_limiter.current_tokens + EstimateTokens(CurrentBatch)
                    <= rate_limiter.max_tokens)) =>
          /\ api_calls' = api_calls
          /\ last_batch'.ret = "None"
          /\ rate_limiter'.current_requests = rate_limiter.current_requests
          /\ rate_limiter'.current_tokens = rate_limiter.current_tokens
          \* nothing is logged but the failure of the batch
          /\ usage_log' = [usage_log EXCEPT !.failed = usage_log'.failed]
      ]_vars

\* C8 witness: a batch was denied after an earlier batch of the run was sent.
C8_Witness ==
    /\ last_batch.outcome = "budget_denied"
    /\ ~last_batch.can_spend
    /\ api_calls >= 1
    /\ combined_metadata.batches_failed >= 1

\* C9: after k record_usage calls on a fresh limiter get_usage_stats reports
\* requests_made = k, tokens_used = the sum of the amounts, and the remainders
\* against the configured ceilings.
C9_UsageStatsCountCalls ==
    LET stats == GetUsageStats(rate_limiter)
    IN /\ stats.requests_made = usage_log.calls
       /\ stats.tokens_used = usage_log.sum
       /\ stats.requests_remaining = environ.CLAUDE_MAX_REQUESTS - usage_log.calls
       /\ stats.tokens_remaining = environ.CLAUDE_MAX_TOKENS - usage_log.sum

\* C9 witness: three calls with different amounts were recorded.
C9_Witness ==
    /\ usage_log.calls = 3
    /\ usage_log.sum = 13
    /\ GetUsageStats(rate_limiter).requests_made = 3

\* C10: a direct can_make_request(e) returns true exactly when
\* requests_made < max_requests and tokens_used + e <= max_tokens, and neither
\* it nor get_usage_stats changes the limiter.
C10_CanMakeRequestPure ==
    [][ (last_query'.call # "none") =>
          /\ rate_limiter' = rate_limiter
          /\ usage_log' = usage_log
          /\ last_query'.call = "can_make_request" =>
                (last_query'.can <=>
                   (/\ rate_limiter.current_requests < rate_limiter.max_requests
                    /\ rate_limiter.current_tokens + last_query'.estimated_tokens
                          <= rate_limiter.max_tokens))
          /\ last_query'.call = "get_usage_stats" =>
                /\ last_query'.stats.requests_made = rate_limiter.current_requests
                /\ last_query'.stats.tokens_used = rate_limiter.current_tokens
      ]_vars

\* C10 witness: can_make_request answered false at the request ceiling although
\* the tokens would have fitted.
C10_Witness ==
    /\ last_query.call = "can_make_request"
    /\ ~last_query.can
    /\ rate_limiter.current_requests = rate_limiter.max_requests
    /\ rate_limiter.current_tokens + last_query.estimated_tokens <= rate_limiter.max_tokens

\* the smallest number of batches of at most b that hold n articles
CeilDiv(n, b) == (n + b - 1) \div b

RECURSIVE Flatten(_)
\* the concatenation of a list of lists
Flatten(ss) == IF ss = <<>> THEN <<>> ELSE Head(ss) \o Flatten(Tail(ss))

\* C11: split_articles_into_batches(articles, b) with b >= 1 returns ceil(n/b)
\* batches, batch k (from 0) being articles[k*b : (k+1)*b]: concatenated they
\* give the input list, every batch is non-empty and holds at most b articles,
\* and an empty input gives an empty list of batches.
C11_SplitPartitions ==
    split_call.returned =>
        LET arts == split_call.articles
            b == split_call.max_batch_size
            bs == split_call.batches
        IN /\ Len(bs) = CeilDiv(Len(arts), b)
           /\ \A k \in 0..(Len(bs) - 1) :
                 /\ Len(bs[k + 1]) = Min(b, Len(arts) - k * b)
                 /\ \A j \in 1..Len(bs[k + 1]) : bs[k + 1][j] = arts[k * b + j]
                 /\ bs[k + 1] # <<>>
                 /\ Len(bs[k + 1]) <= b
           /\ Flatten(bs) = arts
           /\ (arts = <<>> => bs = <<>>)

\* C11 witness: the split returned several full batches and a shorter last one.
C11_Witness ==
    /\ split_call.returned
    /\ Len(split_call.batches) >= 3
    /\ Len(split_call.batches[1]) = split_call.max_batch_size
    /\ Len(split_call.batches[Len(split_call.batches)]) < split_call.max_batch_size

\* C12: the batches are handled one at a time in planned order, each by one
\* step that makes at most one external call, so that no batch is sent twice;
\* the call is made exactly when a key is there and the usage recorded so far
\* (every earlier batch of the run included) leaves room for the batch.
C12_SequentialNoResubmit ==
    [][ AtBatch =>
          /\ last_batch'.arts = CurrentBatch
          /\ api_calls' \in {api_calls, api_calls + 1}
          /\ batches' = batches
          /\ pc = "batches" => (pc' = "done" \/ (pc' = "batches" /\ batch_idx' = batch_idx + 1))
          /\ pc' = "batches" => api_calls' <= batch_idx'
          /\ (api_calls' = api_calls + 1) <=>
                (/\ ~KeyUnresolvable
                 /\ usage_log.calls < environ.CLAUDE_MAX_REQUESTS
                 /\ usage_log.sum + EstimateTokens(CurrentBatch) <= environ.CLAUDE_MAX_TOKENS)
      ]_vars

\* C12 witness: of three batches the first was sent and failed, the second was
\* sent and recorded, and the third was refused on the usage of the second.
C12_Witness ==
    /\ pc = "batches"
    /\ batch_idx = 3
    /\ api_calls = 2
    /\ usage_log.run_calls = 1
    /\ usage_log.calls = 1
    /\ combined_metadata.batches_failed = 2
    /\ last_batch.outcome = "budget_denied"

\* the strategy at place n of the cascade gives a structurally valid object for
\* the text of the call
Produced(n) ==
    StrategyResult(Strategies[n], Strip(extract_call.text), extract_call.required_fields).found

\* the balanced brace groups of the text that parse to a valid object, by the
\* place of their opening brace
ValidObjectStarts ==
    {i \in 1..Len(extract_call.text) :
        /\ extract_call.text[i] = "{"
        /\ BalancedEnd(extract_call.text, i) # 0
        /\ LoadValid(SubSeq(extract_call.text, i, BalancedEnd(extract_call.text, i)),
                     extract_call.required_fields).found}

\* C13: extract_json_from_text returns the result of the first strategy, in
\* the order direct parse, fenced block, bracket balancing, common fixes,
\* aggressive salvage, that gives a structurally valid object, and null when
\* none does; for a text without a code block that holds a valid object this
\* is the valid object that starts at the earliest opening brace.
C13_FirstStrategyInOrder ==
    extract_call.returned =>
        LET firsts == {n \in 1..Len(Strategies) : Produced(n) /\ \A m \in 1..(n - 1) : ~Produced(m)}
        IN /\ \A n \in firsts :
                 /\ extract_call.result.found
                 /\ extract_call.result.strategy = Strategies[n]
                 /\ extract_call.result.val =
                       ProcessHtmlEntitiesInJson(
                          StrategyResult(Strategies[n], Strip(extract_call.text),
                                         extract_call.required_fields).val)
           /\ (firsts = {} => ~extract_call.result.found)
           /\ ((\A i \in 1..Len(extract_call.text) : extract_call.text[i] # Fence)
                 /\ ValidObjectStarts # {}) =>
                 LET i == CHOOSE a \in ValidObjectStarts : \A b \in ValidObjectStarts : a <= b
                 IN extract_call.result.val =
                       ProcessHtmlEntitiesInJson(
                          JsonLoads(SubSeq(extract_call.text, i,
                                           BalancedEnd(extract_call.text, i))).val)

\* C14: a value extract_json_from_text returns is a mapping that holds every
\* required field, and it returns null only when no strategy of the cascade
\* gives a structurally valid object.
C14_ValidOrEveryStrategyFailed ==
    extract_call.returned =>
        /\ extract_call.result.found =>
              /\ extract_call.result.val.t = "object"
              /\ \A n \in 1..Len(extract_call.required_fields) :
                    JHas(extract_call.result.val, extract_call.required_fields[n])
        /\ ~extract_call.result.found => \A n \in 1..Len(Strategies) : ~Produced(n)

\* the call is made on the serialization of a well-formed payload
OnDump == extract_call.dumped.t = "object"

\* C15 as claimed: extract_json_from_text of the serialization of a well-formed
\* payload returns a payload equal to it.
C15_RoundTripEqual ==
    (extract_call.returned /\ OnDump) =>
        /\ extract_call.result.found
        /\ extract_call.result.val = extract_call.dumped

\* the characters of a title or summary with the entity &amp; decoded
AmpDecoded(chars) == [n \in 1..Len(chars) |-> IF chars[n] = "&amp;" THEN "&" ELSE chars[n]]

\* an item with its title and summary decoded, its other fields as they are
ItemDecoded(item) ==
    [item EXCEPT !.kids =
        [n \in 1..Len(item.kids) |->
            IF item.kids[n].s \in {<<"title">>, <<"summary">>}
            THEN [item.kids[n] EXCEPT !.kids = <<[item.kids[n].kids[1] EXCEPT !.s = AmpDecoded(@)]>>]
            ELSE item.kids[n]]]

\* a mapping of category names to item lists with every item decoded
CategoriesDecoded(mapping) ==
    [mapping EXCEPT !.kids =
        [n \in 1..Len(mapping.kids) |->
            [mapping.kids[n] EXCEPT !.kids =
                <<[mapping.kids[n].kids[1] EXCEPT !.kids =
                    [m \in 1..Len(mapping.kids[n].kids[1].kids) |->
                        ItemDecoded(mapping.kids[n].kids[1].kids[m])]]>>]]]

\* the payload with the titles and summaries of its items decoded
PayloadDecoded(x) ==
    IF JHas(x, <<"categories">>)
    THEN JObj(<<JMember(<<"categories">>, CategoriesDecoded(JGet(x, <<"categories">>)))>>)
    ELSE CategoriesDecoded(x)

\* C15 as amended: extract_json_from_text of the serialization of a
\* well-formed payload returns, by the direct parse, the payload with the HTML
\* entities of the title and summary strings of its items decoded and
\* everything else as it is.
C15_RoundTripDecodesEntities ==
    (extract_call.returned /\ OnDump) =>
        /\ extract_call.result.found
        /\ extract_call.result.strategy = "direct"
        /\ extract_call.result.val = PayloadDecoded(extract_call.dumped)

\* C15 witness: a payload with an entity in a title, a quote in another and an
\* entity in a link came back with the title decoded and the link as it was.
C15_Witness ==
    /\ extract_call.returned
    /\ OnDump
    /\ JHas(extract_call.dumped, <<"categories">>)
    /\ extract_call.result.found
    /\ extract_call.result.val # extract_call.dumped
    /\ LET items(v) == JGet(JGet(v, <<"categories">>), <<"Tech">>).kids
           other(v) == JGet(JGet(v, <<"categories">>), <<"Science">>).kids
       IN /\ JGet(items(extract_call.dumped)[1], <<"title">>).s = <<"a", "&amp;", "b">>
          /\ JGet(items(extract_call.result.val)[1], <<"title">>).s = <<"a", "&", "b">>
          /\ JGet(items(extract_call.result.val)[1], <<"link">>).s = <<"a", "&amp;", "b">>
          /\ JGet(other(extract_call.result.val)[1], <<"title">>).s = <<"a", Quote, "b">>

\* C16: a call of repair_truncated_json on a text that is valid JSON returns
\* what parsing the text directly gives, from the first return statement,
\* before any rewriting of the text
C16_ValidJsonParsedDirectly ==
    repair_call.returned /\ JsonLoads(repair_call.json_str).ok
        => repair_call.result = Repaired(JsonLoads(repair_call.json_str).val, "direct")

\* a valid text with a blank string value, which the comma fixes would change,
\* has been handed to repair_truncated_json
C16_Witness ==
    /\ repair_call.returned
    /\ JsonLoads(repair_call.json_str).ok
    /\ FixCommaDelimiters(repair_call.json_str) # repair_call.json_str
    /\ repair_call.result.val.t = "object"

\* C18: a step of the batch loop on a response that was parsed but from which
\* the assembler made no category counts the batch as failed (batches_failed
\* grows by one) and gives each article of the batch a fallback record
C18_NoUsableCategoryFailsBatch ==
    [][(/\ pc = "batches"
        /\ batch_idx' = batch_idx + 1
        /\ last_batch'.outcome = "parsed"
        /\ last_batch'.ret = "result"
        /\ last_batch'.categories = <<>>)
       => /\ combined_metadata'.batches_failed = combined_metadata.batches_failed + 1
          /\ all_categories' = MergeFailedBatch(all_categories, last_batch'.arts)]_vars

\* the payload without its categories that map to a scalar
WithoutScalars(data) ==
    [data EXCEPT !.cats = SelectSeq(data.cats, LAMBDA c : c.kind # "scalar")]

\* the payload has a category that maps to a scalar
HasScalarCategory(data) ==
    /\ data.top \in {"dict_categories", "list_categories", "toplevel"}
    /\ \E i \in 1..Len(data.cats) :
          data.cats[i].kind = "scalar" /\ data.cats[i].name \notin MetadataFields

\* C17: when a category of the payload maps to a scalar,
\* _create_categorized_articles returns normally what it returns for the
\* payload without that category: the category gives no record, the records
\* of every other category are unchanged, and the scalar raises no exception
C17_ScalarCategorySkipped ==
    assemble_call.returned /\ HasScalarCategory(assemble_call.data)
        => /\ assemble_call.result.ret = "result"
           /\ assemble_call.result =
                CreateCategorizedArticles(WithoutScalars(assemble_call.data),
                                          assemble_call.articles, 0)
           /\ AssemblyRaises(assemble_call.data)
                = AssemblyRaises(WithoutScalars(assemble_call.data))

\* a payload with a scalar category and a category of well-formed items has
\* been assembled into the records of the latter
C17_Witness ==
    /\ assemble_call.returned
    /\ HasScalarCategory(assemble_call.data)
    /\ assemble_call.result.ret = "result"
    /\ \E i \in 1..Len(assemble_call.result.categories) :
          /\ assemble_call.result.categories[i].name = "Science"
          /\ Len(assemble_call.result.categories[i].articles) = Len(assemble_call.articles)

\* the item's identifier is malformed or names an ordinal out of range
Unjoinable(item, arts) == ~item.id.wellformed \/ item.id.ordinal >= Len(arts)

\* the result holds this record under this category name
HoldsRecord(categories, name, rec) ==
    \E i \in 1..Len(categories) :
        /\ categories[i].name = name
        /\ \E j \in 1..Len(categories[i].articles) : categories[i].articles[j] = rec

\* C19: for an item whose identifier is malformed or whose ordinal is out of
\* range the assembler still gives a record with the item's own title under
\* the item's category, with an empty original description and no comments,
\* and the other items of the payload keep their model-derived records
\* (payloads whose categories bear different names)
C19_UnjoinableItemKept ==
    assemble_call.returned /\ DistinctNames(assemble_call.data.cats)
        => \A i \in 1..Len(assemble_call.data.cats) :
              EntryProcessed(assemble_call.data.top, assemble_call.data.cats[i])
                 => \A j \in 1..Len(assemble_call.data.cats[i].items) :
                       LET c == assemble_call.data.cats[i]
                           item == c.items[j]
                       IN HoldsRecord(assemble_call.result.categories, c.name,
                             IF Unjoinable(item, assemble_call.articles)
                             THEN [title |-> item.title, category |-> c.name,
                                   original_description |-> <<>>, comments |-> <<>>]
                             ELSE ProcessArticleEntry(item, assemble_call.articles, c.name))

\* the payload gives its categories as a mapping of names to item lists
IsMappingOfLists(data) ==
    /\ data.top = "dict_categories"
    /\ \A i \in 1..Len(data.cats) : data.cats[i].kind = "list"

\* the same categories as a list of {name, articles} objects
AsListOfObjects(data) == [data EXCEPT !.top = "list_categories"]

\* C20 as stated: the mapping name -> items and the list of {name, articles}
\* objects with the same categories are assembled into the same result
C20_ShapesAssembleAlike ==
    assemble_call.returned /\ IsMappingOfLists(assemble_call.data)
        => assemble_call.result =
              CreateCategorizedArticles(AsListOfObjects(assemble_call.data),
                                        assemble_call.articles, 0)

\* C20: the two shapes are assembled into the same result when no category
\* bears one of the metadata names article_count and verification, which the
\* mapping shape alone leaves out
C20_ShapesAssembleAlikeButMetadataNames ==
    (/\ assemble_call.returned
     /\ IsMappingOfLists(assemble_call.data)
     /\ \A i \in 1..Len(assemble_call.data.cats) :
           assemble_call.data.cats[i].name \notin MetadataFields)
        => assemble_call.result =
              CreateCategorizedArticles(AsListOfObjects(assemble_call.data),
                                        assemble_call.articles, 0)

\* a mapping of two categories with items has been assembled into two
\* categories of records
C20_Witness ==
    /\ assemble_call.returned
    /\ IsMappingOfLists(assemble_call.data)
    /\ Len(assemble_call.data.cats) = 2
    /\ Len(assemble_call.result.categories) = 2
    /\ assemble_call.result.categories[1].name = "Technology"

-----------------------------------------------------------------------------
\* process_articles_with_claude was called with the empty list
CalledWithEmptyList == pc # "idle" /\ articles = <<>>

-----------------------------------------------------------------------------
\* a multi-batch run has returned its result
MultiBatchResult == pc = "done" /\ batches # <<>> /\ result.kind = "result"

\* C22: at the end of a multi-batch run the returned metadata has
\* batches_failed equal to the number of batches that failed,
\* batches_processed + batches_failed equal to total_batches (the number of
\* planned batches), and tokens_used equal to the sum of the usage the service
\* reported for the external calls of the run.
C22_MetadataAccounts ==
    MultiBatchResult =>
        /\ result.metadata.batches_failed = usage_log.failed
        /\ result.metadata.total_batches = Len(batches)
        /\ result.metadata.batches_processed + result.metadata.batches_failed
              = result.metadata.total_batches
        /\ result.metadata.tokens_used = usage_log.reported

-----------------------------------------------------------------------------
\* the entries of the prompts of all batches, in the order of the requests
PromptEntries == Flatten(enrich_call.prompts)

\* C23: in a run split into several batches the identifier given to a record
\* in the prompt carries the record's position in the full input list, so the
\* identifiers differ across batches and resolving an identifier against the
\* full list, as enrich_batch_results_with_metadata does, gives the record
\* the item was made from.
C23_IdentifierIsFullListPosition ==
    enrich_call.submitted =>
        /\ \A n \in 1..Len(PromptEntries) :
              /\ PromptEntries[n].id.ordinal = n - 1
              /\ enrich_call.articles[PromptEntries[n].id.ordinal + 1].gid = PromptEntries[n].title
        /\ \A n \in 1..Len(PromptEntries) : \A m \in 1..Len(PromptEntries) :
              PromptEntries[n].id = PromptEntries[m].id => n = m
        /\ \A c \in 1..Len(enrich_call.all_categories) :
              \A i \in 1..Len(enrich_call.all_categories[c].articles) :
                 LET rec == enrich_call.all_categories[c].articles[i]
                 IN rec.original_description = enrich_call.articles[rec.title + 1].description

-----------------------------------------------------------------------------
\* the place of a name in a list of names or of entries
PriorityIndex(name) == CHOOSE n \in 1..Len(PriorityCategories) : PriorityCategories[n] = name

EntryIndex(d, name) == CHOOSE n \in 1..Len(d) : d[n].name = name

\* C24: group_articles_by_priority returns every category of the result
\* exactly once with its record list unchanged: the categories named in the
\* priority list come first in priority-list order, all other categories
\* follow in encounter order, and the total record count is unchanged.
C24_GroupKeepsEveryCategory ==
    group_call.returned =>
        LET cats == group_call.categories
            out == group_call.ordered
        IN /\ Len(out) = Len(cats)
           /\ \A c \in 1..Len(cats) :
                 /\ Cardinality({n \in 1..Len(out) : out[n].name = cats[c].name}) = 1
                 /\ out[EntryIndex(out, cats[c].name)].articles = cats[c].articles
           /\ \A n \in 1..Len(out) : \A m \in (n + 1)..Len(out) :
                 IF InPriorityList(out[m].name)
                 THEN /\ InPriorityList(out[n].name)
                      /\ PriorityIndex(out[n].name) < PriorityIndex(out[m].name)
                 ELSE InPriorityList(out[n].name)
                      \/ EntryIndex(cats, out[n].name) < EntryIndex(cats, out[m].name)
           /\ TotalRecords(out) = TotalRecords(cats)

\* C24 witness: a result whose first category is not in the priority list and
\* whose other two are listed in the reverse of priority order was regrouped.
C24_Witness ==
    /\ group_call.returned
    /\ Len(group_call.categories) = 3
    /\ group_call.categories[1].name = "World"
    /\ group_call.categories[2].name = "Science"
    /\ group_call.categories[3].name = "Technology"
    /\ group_call.ordered[1].name = "Technology"
    /\ group_call.ordered[3].name = "World"
    /\ TotalRecords(group_call.ordered) = 6

-----------------------------------------------------------------------------
\* C25: in any run the number of external calls made never exceeds the
\* configured request ceiling max_requests, whatever the outcomes of the calls
\* (success, service error, or a response that cannot be parsed).
C25_CallsWithinRequestCeiling == api_calls <= environ.CLAUDE_MAX_REQUESTS

-----------------------------------------------------------------------------
\* the index of the quote that opens the string the text ends in
OpenQuote(txt) == CHOOSE q \in TogglingQuotes(txt) : \A r \in TogglingQuotes(txt) : q >= r

\* the last token before txt[i] that is not a blank, "" if there is none
TokenBefore(txt, i) ==
    LET solid == {j \in 1..(i - 1) : txt[j] # Blank}
    IN IF solid = {} THEN "" ELSE txt[CHOOSE j \in solid : \A k \in solid : j >= k]

\* the text is cut inside a string value: the first pass ends inside a string
\* that follows a colon, with structures still open
TruncatedInStringValue(txt) ==
    /\ ScanStructure(txt).in_string
    /\ ScanStructure(txt).stack # <<>>
    /\ TokenBefore(txt, OpenQuote(txt)) = ":"

\* the text with the open string and the open structures closed, the last
\* opened first
ClosedInOrder(txt) == txt \o <<Quote>> \o Closers(ScanStructure(txt).stack)

-----------------------------------------------------------------------------
(* From the text of a response to the records of a run with one article *)

\* a key of the parsed JSON as a category name
KeyName(key) == IF key = <<>> THEN "" ELSE key[1]

IsStr(obj, key) == JHas(obj, key) /\ JGet(obj, key).t = "string"

\* what _process_article_entry does on element e of a list of articles:
\* "none" (a record), "caught" (an exception of the except clause of
\* _create_categorized_articles) or "AttributeError" (.split on a non-string)
EntryFault(e) ==
    IF e.t # "object" THEN "caught"
    ELSE IF ~JHas(e, <<"id">>) THEN "caught"
    ELSE IF JGet(e, <<"id">>).t # "string" THEN "AttributeError"
    ELSE IF JGet(e, <<"id">>).s \notin {<<"article_0">>, <<"article_1">>} THEN "caught"
    ELSE IF \E k \in {"title", "link", "summary", "pubdate"} : ~IsStr(e, <<k>>) THEN "caught"
    ELSE "none"

\* the element as an item of the payload
ItemOfValue(e) ==
    IF EntryFault(e) = "none"
    THEN [id |-> [wellformed |-> TRUE,
                  ordinal |-> IF JGet(e, <<"id">>).s = <<"article_1">> THEN 1 ELSE 0],
          title |-> JGet(e, <<"title">>).s]
    ELSE [id |-> [wellformed |-> FALSE, ordinal |-> 0], title |-> <<>>]

\* category: data of a mapping of categories
CatOfMember(m) ==
    LET data == m.kids[1]
        articles_data == IF data.t = "object" /\ JHas(data, <<"articles">>)
                         THEN JGet(data, <<"articles">>) ELSE data
    IN [name |-> KeyName(m.s),
        kind |-> IF articles_data.t # "array" THEN "scalar"
                 ELSE IF data.t = "object" THEN "dict_articles" ELSE "list",
        items |-> IF articles_data.t # "array" THEN <<>>
                  ELSE [j \in 1..Len(articles_data.kids) |-> ItemOfValue(articles_data.kids[j])],
        faults |-> IF articles_data.t # "array" \/ KeyName(m.s) \in MetadataFields THEN <<>>
                   ELSE [j \in 1..Len(articles_data.kids) |-> EntryFault(articles_data.kids[j])]]

\* the first exception raised while the categories are processed, "none" if
\* there is none
FirstFault(cats) ==
    LET faults == Flatten([i \in 1..Len(cats) |-> cats[i].faults])
        raised == {i \in 1..Len(faults) : faults[i] # "none"}
    IN IF raised = {} THEN "none" ELSE faults[Least(raised)]

Entry(c) == [name |-> c.name, kind |-> c.kind, items |-> c.items]

\* categorized_data as a payload: the shape of the parsed value v and its
\* categories; a list of category objects does not occur in the texts.  A
\* number makes the test "categories" in categorized_data raise a TypeError,
\* which the except clause catches as it catches the one of a malformed item.
PayloadOf(v) ==
    IF ~Truthy(v) THEN [top |-> "falsy", cats |-> <<>>]
    ELSE IF v.t = "number"
    THEN [top |-> "toplevel",
          cats |-> <<ListCat("", <<[id |-> [wellformed |-> FALSE, ordinal |-> 0],
                                   title |-> <<>>]>>)>>]
    ELSE IF v.t # "object" THEN [top |-> "non_mapping", cats |-> <<>>]
    ELSE LET categories_data == IF JHas(v, <<"categories">>) THEN JGet(v, <<"categories">>) ELSE v
             Shaped(cats) ==
                 IF FirstFault(cats) = "AttributeError" THEN [top |-> "non_mapping", cats |-> <<>>]
                 ELSE [top |-> IF JHas(v, <<"categories">>) THEN "dict_categories" ELSE "toplevel",
                       cats |-> [i \in 1..Len(cats) |-> Entry(cats[i])]]
         IN IF categories_data.t # "object" THEN [top |-> "scalar_categories", cats |-> <<>>]
            ELSE Shaped([i \in 1..Len(categories_data.kids) |-> CatOfMember(categories_data.kids[i])])

\* _call_claude_api, from response_text to categorized_data: the direct parse,
\* repair_truncated_json, then the text from its first { to its last }
ParseResponseText(response_text) ==
    LET Substring(txt) ==
            IF Count(txt, "{") = 0 \/ Count(txt, "}") = 0 THEN None
            ELSE IF JsonLoads(BetweenBraces(txt)).ok THEN Some(JsonLoads(BetweenBraces(txt)).val)
            ELSE None
        Repair(txt, repaired) ==
            IF repaired.path \notin {"blank", "failed"} THEN Some(repaired.val) ELSE Substring(txt)
        Parse(txt, direct) ==
            IF direct.ok THEN Some(direct.val) ELSE Repair(txt, RepairTruncatedJson(txt))
    IN Parse(Strip(response_text), JsonLoads(Strip(response_text)))

\* the response with this text and this usage, as _call_claude_api reads it
ResponseOfText(response_text, tokens) ==
    LET Read(data) ==
            IF data.found
            THEN [kind |-> "parsed", data |-> PayloadOf(data.val), tokens |-> tokens]
            ELSE [kind |-> "unparseable", data |-> [top |-> "falsy", cats |-> <<>>],
                  tokens |-> tokens]
    IN IF Strip(response_text) = <<>>
       THEN [kind |-> "empty_text", data |-> [top |-> "falsy", cats |-> <<>>], tokens |-> tokens]
       ELSE Read(ParseResponseText(response_text))

\* process_articles_with_claude on a list of one article, the service
\* answering with this text
SingleRecordRun(response_text) ==
    LET env == [environ EXCEPT !.CLAUDE_ENABLED = TRUE]
    IN SingleBatchResult(MakeArticles(1),
                         ProcessWithClaudeClient(MakeArticles(1), NewRateLimiter(env), env,
                                                 ResponseOfText(response_text, 1)))

\* C26: for a response truncated inside a string value (the scan ends inside
\* an open string with brackets still open), repair_truncated_json appends a
\* closing quote and then one closing token per still-open bracket, the last
\* opened first, and returns the parsed object; the run on a single-record
\* batch, the response naming that article only, then yields exactly one
\* record for that article.
C26_StringValueClosedInOrder ==
    (repair_call.returned /\ TruncatedInStringValue(repair_call.json_str)) =>
        /\ JsonLoads(ClosedInOrder(repair_call.json_str)).ok
        /\ repair_call.result.val = JsonLoads(ClosedInOrder(repair_call.json_str)).val
        /\ repair_call.result.val.t = "object"
        /\ Count(repair_call.json_str, "article_1") = 0 =>
              /\ SingleRecordRun(repair_call.json_str).kind = "result"
              /\ TotalRecords(SingleRecordRun(repair_call.json_str).categories) = 1

-----------------------------------------------------------------------------
\* the text is cut inside a property name: the first pass ends inside a string
\* opened where an object expects a key, so that no colon follows it
TruncatedInPropertyName(txt) ==
    /\ ScanStructure(txt).in_string
    /\ ScanStructure(txt).stack # <<>>
    /\ ScanStructure(txt).stack[Len(ScanStructure(txt).stack)] = "{"
    /\ TokenBefore(txt, OpenQuote(txt)) \in {"{", ","}

\* the text with the open name closed and given a null value, then the open
\* structures closed
ClosedWithNull(txt) == txt \o <<Quote, ":", "null">> \o Closers(ScanStructure(txt).stack)

\* C27: for a response truncated inside a property name (an opened key string
\* with no colon after it), repair_truncated_json closes the string, gives
\* that property a null value placed before the closing tokens, and returns a
\* parsed object that keeps every item completed before the truncation.
C27_PropertyNameGetsNull ==
    (repair_call.returned /\ TruncatedInPropertyName(repair_call.json_str)) =>
        /\ JsonLoads(ClosedWithNull(repair_call.json_str)).ok
        /\ repair_call.result.val = JsonLoads(ClosedWithNull(repair_call.json_str)).val
        /\ repair_call.result.val.t = "object"

-----------------------------------------------------------------------------
\* the text with tok put in before its token i
InsertAt(txt, i, tok) == SubSeq(txt, 1, i - 1) \o <<tok>> \o SubSeq(txt, i, Len(txt))

\* the places directly inside an object, after a complete property, where the
\* one comma is missing whose insertion makes the text parse
MissingPropertyCommas(txt) ==
    {i \in 2..Len(txt) :
        /\ ~ScanStructure(SubSeq(txt, 1, i - 1)).in_string
        /\ ScanStructure(SubSeq(txt, 1, i - 1)).stack # <<>>
        /\ ScanStructure(SubSeq(txt, 1, i - 1)).stack[
              Len(ScanStructure(SubSeq(txt, 1, i - 1)).stack)] = "{"
        /\ txt[i - 1] # Blank
        /\ JsonLoads(InsertAt(txt, i, ",")).ok}

\* the direct parse of the text fails with the missing-delimiter error
MissingDelimiter(txt) ==
    ~JsonLoads(txt).ok /\ JsonLoads(txt).err = "Expecting , delimiter"

\* C28: when the direct parse fails with a missing-delimiter error,
\* repair_truncated_json tries the comma-insertion pass before any other
\* repair and returns its result only if the fixed text parses; a response
\* whose only defect is a missing comma between two adjacent object
\* properties is recovered with all its categories and items.
C28_CommaInsertionFirst ==
    (repair_call.returned /\ MissingDelimiter(repair_call.json_str)) =>
        /\ JsonLoads(FixCommaDelimiters(repair_call.json_str)).ok =>
              /\ repair_call.result.path = "comma_fix"
              /\ repair_call.result.val = JsonLoads(FixCommaDelimiters(repair_call.json_str)).val
        /\ repair_call.result.path = "comma_fix" =>
              JsonLoads(FixCommaDelimiters(repair_call.json_str)).ok
        /\ \A i \in MissingPropertyCommas(repair_call.json_str) :
              repair_call.result.val = JsonLoads(InsertAt(repair_call.json_str, i, ",")).val

-----------------------------------------------------------------------------
\* d.get(k, [])
ListOf(d, k) == IF DictHas(d, k) THEN DictGet(d, k) ELSE <<>>

Names(d) == [i \in 1..Len(d) |-> d[i].name]

\* the categories the step merges for the batch it handled: those of the
\* batch result, or the fallback records of a failed batch
MergedOf(b) ==
    IF b.ret = "result" THEN b.categories
    ELSE <<[name |-> "Uncategorized", articles |-> CreateFallbackArticles(b.arts)]>>

\* C29: merging a batch's categories into the running result only appends:
\* the categories already there keep their places and their records, each
\* category's list after the merge is its list before it followed by the
\* batch's list for that category (so that over the run it is the
\* concatenation of the batches' lists in batch order), and the total record
\* count after a merge is the sum of the counts before it and of the merged
\* batch.
C29_MergeOnlyAppends ==
    [][(pc = "batches" /\ batch_idx' = batch_idx + 1) =>
          /\ IsPrefix(Names(all_categories), Names(all_categories'))
          /\ \A i \in 1..Len(all_categories') :
                all_categories'[i].articles =
                    ListOf(all_categories, all_categories'[i].name)
                    \o ListOf(MergedOf(last_batch'), all_categories'[i].name)
          /\ \A j \in 1..Len(MergedOf(last_batch')) :
                DictHas(all_categories', MergedOf(last_batch')[j].name)
          /\ TotalRecords(all_categories') =
                TotalRecords(all_categories) + TotalRecords(MergedOf(last_batch'))]_vars

\* a second batch result was merged into a category that held records of an
\* earlier batch
C29_Witness ==
    /\ pc = "batches"
    /\ batch_idx >= 2
    /\ last_batch.ret = "result"
    /\ \E i \in 1..Len(all_categories) :
          /\ ListOf(last_batch.categories, all_categories[i].name) # <<>>
          /\ Len(all_categories[i].articles) >
                Len(ListOf(last_batch.categories, all_categories[i].name))

-----------------------------------------------------------------------------
\* every item of the payload is well-formed and its categories are a mapping
\* or a list of category objects
AllItemsWellFormed(data) ==
    /\ data.top \in {"dict_categories", "list_categories", "toplevel"}
    /\ \A i \in 1..Len(data.cats) :
          \A j \in 1..Len(data.cats[i].items) : data.cats[i].items[j].id.wellformed

RECURSIVE ListValuedItems(_)
\* the number of items in the list-valued categories
ListValuedItems(cats) ==
    IF cats = <<>> THEN 0
    ELSE (IF Head(cats).kind = "list" THEN Len(Head(cats).items) ELSE 0)
         + ListValuedItems(Tail(cats))

\* C30: for every parsed payload in which each item is well-formed, the number
\* of records produced by _create_categorized_articles equals the total
\* number of items in the list-valued categories of the payload, in both
\* payload shapes and for every list-shape payload, including one in which a
\* category name occurs in more than one category object.
C30_RecordPerListedItem ==
    (assemble_call.returned /\ AllItemsWellFormed(assemble_call.data)) =>
        /\ assemble_call.result.ret = "result"
        /\ TotalRecords(assemble_call.result.categories) = ListValuedItems(assemble_call.data.cats)

====
